---- MODULE Spec2Model ----
(***************************************************************************)
(* Sentinel-AI event pipeline: source registry, scheduler, connector,      *)
(* filter, ranker, inspector, vector-store adapter and guardian, over a    *)
(* JetStream broker with durable pull consumers (explicit ack, ack_wait,   *)
(* max_deliver).                                                           *)
(*                                                                         *)
(* The services are separate processes; each group of variables below is   *)
(* the state of one of them plus the streams / tables it touches.  Every   *)
(* specification (SpecSched, SpecConn, ...) runs one part of the system    *)
(* and leaves the variables of the other parts at their initial value.     *)
(***************************************************************************)
EXTENDS Integers, Sequences, FiniteSets, TLC

\* ------------------------------------------------------------------------
\* Bounds of the model
\* ------------------------------------------------------------------------
MaxSources == 2

MaxPolls == 1

\* Broker calls (publish, ack, nak) that fail during one run.
MaxFaults == 2

SourceIds == 1..MaxSources

\* ------------------------------------------------------------------------
\* Program constants
\* ------------------------------------------------------------------------
SchedMaxDeliver == 5

DEFAULT_POLL_INTERVAL_SECONDS == 300

\* An optional key of a dict (a payload, a config): None when the dict has
\* no such key, Some(v) when it has.
None == <<>>

Some(v) == <<v>>

\* config.poll_interval_seconds of a sources row: the API writes configs
\* without the key; a row can get one from whoever maintains the table.
ConfigIntervals == {None, Some(60)}

\* ------------------------------------------------------------------------
\* Broker: one stream is a sequence of stored messages; the index of a
\* message is its stream sequence.  dc is the delivery count of the durable
\* consumer "worker"; st is the consumer's view of the message.
\*   ready    - waiting to be (re)delivered
\*   inflight - delivered, neither acked nor nak'd yet
\*   acked    - acked (work-queue retention removes it from the stream)
\*   dead     - max_deliver reached without an ack: never delivered again
\* ------------------------------------------------------------------------
NewMsg(body) == [body |-> body, dc |-> 0, st |-> "ready"]

StreamPublish(s, body) == Append(s, NewMsg(body))

StreamDeliver(s, i) == [s EXCEPT ![i].dc = @ + 1, ![i].st = "inflight"]

StreamAck(s, i) == [s EXCEPT ![i].st = "acked"]

\* nak, or ack_wait expiry: redelivery while the delivery count is below
\* max_deliver, otherwise the message is given up.
StreamNak(s, i, maxDeliver) ==
    [s EXCEPT ![i].st = IF s[i].dc < maxDeliver THEN "ready" ELSE "dead"]

Range(q) == {q[k] : k \in DOMAIN q}

Ready(s) == {i \in DOMAIN s : s[i].st = "ready"}

Inflight(s) == {i \in DOMAIN s : s[i].st = "inflight"}

\* ------------------------------------------------------------------------
\* State
\* ------------------------------------------------------------------------
VARIABLES
    \* --- source registry and scheduler ---
    db,          \* sources table: id -> "none" | "active" | "inactive" | "deleted"
    cfg,         \* sources table: id -> config.poll_interval_seconds of the row
    newQ,        \* new-source-stream
    remQ,        \* removed-source-stream
    jobs,        \* APScheduler job store: a set of jobs [id, interval], id
                 \* being the source id of the job id "poll_source_<id>"
    tick,        \* per source: the tick coroutine: "idle", "failed" (idle,
                 \* the last run ended in the except branch), or, between
                 \* the row read and the publish, what it read of the row
    pollStream,  \* poll-source-stream
    remAcked,    \* history: ids whose removed.source was acked
    pollAfterAck, \* history: ids with a poll.source emitted after that ack
    jobReplaced, \* history: ids whose job _schedule_poll_job replaced by a job
                 \* with another interval
    schedCalls,  \* history: what the scheduler's last handler execution
                 \* invoked on its message, and whether an exception escaped
    faults       \* number of broker calls that have failed so far

schedVars == <<db, cfg, newQ, remQ, jobs, tick, pollStream, remAcked, pollAfterAck, jobReplaced, schedCalls>>

schedOnly == <<db, cfg, newQ, remQ, jobs, tick, remAcked, pollAfterAck, jobReplaced, schedCalls>>

\* --- connector ---
VARIABLES
    processed,   \* processed_items table: committed (source_id, item_url) rows
    conn,        \* per connector process: the handler coroutine
    rawOut,      \* raw.events: number of RawEvents published per (source_id, href)
    insertedBy,  \* history: pair -> stream sequence of the poll.source whose
              \* handling committed the row (0: not in the table)
    seenAgain    \* history: pairs that a later scrape returned again

connVars == <<processed, conn, rawOut, insertedBy, seenAgain>>

\* --- filter, dead-letter stream and guardian ---
VARIABLES
    rawQ,        \* raw-events-stream (consumer of the filter)
    dlq,         \* DLQ stream: captured max-deliveries advisories
    guardianMain, \* the guardian/main.py process: "starting" | "crashed"
    alerts       \* per alerter: number of send_alert calls

filterVars == <<rawQ, dlq, guardianMain, alerts>>

\* --- vector store, ranker, inspector ---
VARIABLES
    store,       \* the collection: a set of points [key, vector, payload]
    filteredQ,   \* filtered-events-stream (consumer of the ranker)
    rankedQ,     \* ranked-events-stream (consumer of the inspector)
    rk,          \* the ranker's handler coroutine
    ins,         \* the inspector's handler coroutine
    persisted,   \* history: per id, how often the filter's upsert wrote it
    filterRun    \* history: the filter's last execution of steps 3 and 4:
                 \* whether the store write succeeded, whether the
                 \* FilteredEvent was published, and what was called on
                 \* the raw message

rankVars == <<store, filteredQ, rankedQ, rk, ins, persisted, filterRun>>

\* --- API, news and ingest endpoints ---
VARIABLES
    response,    \* the last response of a GET /news endpoint: endpoint,
                 \* limit, HTTP status and the list in the body
    ingestCall   \* history: the last POST /ingest: the events of the batch,
                 \* how many of them were published, and the HTTP status

apiVars == <<response, ingestCall>>

\* --- guardian/main.py ---
VARIABLES
    alertRun     \* history: the last execution of dlq_handler: the alerters
                 \* whose send_alert raised, the alerters whose send_alert
                 \* was invoked, and what was called on the message

alertVars == <<alertRun>>

\* --- one worker process: its main task and its subscriber ---
VARIABLES
    mainTask,    \* main(): "starting" | "fetching" (in the fetch loop of
                 \* connect_and_subscribe) | "handling" | "exited"
    nc,          \* the subscriber's connection: "new" | "connected" |
                 \* "disconnected" | "closed"
    ping_event,  \* the threading.Event that tells the ping thread to stop
    ping_thread, \* keep_alive_ping: "none" | "check" (at the while test) |
                 \* "sleeping" (between two pings) | "exited"
    pings,       \* number of pings sent
    handled,     \* number of messages passed to message_handler
    disconnects, \* number of disconnects of the connection
    closeCalled  \* the objects whose close() main() has called

lifeVars == <<mainTask, nc, ping_event, ping_thread, pings, handled, disconnects, closeCalled>>

\* --- one call of upsert_event looked at on its own ---
VARIABLES
    upsertRun    \* the last call: the collection before it, the event_data
                 \* passed, and the value returned

upsertVars == <<upsertRun>>

\* What each part of the system leaves alone.
notSched == <<upsertVars, connVars, filterVars, rankVars, apiVars, alertVars, lifeVars>>

notConn == <<upsertVars, schedOnly, filterVars, rankVars, apiVars, alertVars, lifeVars>>

notFilter == <<upsertVars, schedVars, connVars, rankVars, apiVars, alertVars, lifeVars>>

notRank == <<upsertVars, schedVars, connVars, filterVars, apiVars, alertVars, lifeVars>>

notApi == <<upsertVars, schedVars, connVars, filterVars, rankVars, alertVars, lifeVars>>

notLife == <<upsertVars, schedVars, connVars, filterVars, rankVars, apiVars, alertVars>>

\* A broker call fails n more times: allowed while the budget lasts.
Fail(n) == /\ faults + n <= MaxFaults
           /\ faults' = faults + n

\* The broker calls of a handler's tail: ack; when ack raises, the except
\* branch calls nak, which may raise as well.
AckNakFaults(ackOk, nakOk) ==
    IF ackOk THEN nakOk /\ UNCHANGED faults
    ELSE IF nakOk THEN Fail(1) ELSE Fail(2)

\* What a handler whose body ends in "await msg.ack()" inside the try, with
\* "except Exception: await msg.nak()", invokes on its message: ack, and
\* nak as well when ack raised; the exception of a failing nak escapes.
AckThenNakOnError(ackOk, nakOk) ==
    [calls |-> IF ackOk THEN <<"ack">> ELSE <<"ack", "nak">>,
     escaped |-> ~ackOk /\ ~nakOk]

\* ------------------------------------------------------------------------
\* Source registry (API)
\* ------------------------------------------------------------------------
SchedInit ==
    /\ db = [i \in SourceIds |-> "none"]
    /\ cfg = [i \in SourceIds |-> None]
    /\ newQ = <<>>
    /\ remQ = <<>>
    /\ jobs = {}
    /\ tick = [i \in SourceIds |-> "idle"]
    /\ pollStream = <<>>
    /\ remAcked = {}
    /\ pollAfterAck = {}
    /\ jobReplaced = {}
    /\ schedCalls = [calls |-> <<>>, escaped |-> FALSE]
    /\ faults = 0

\* POST /sources: insert the row (is_active defaults to true; the config
\* has the keys url, title, body and published_at), then publish new.source; a publish failure is logged and the request still succeeds.
\* Ids are handed out in increasing order and never reused.
create_source(id, pubOk) ==
    /\ db[id] = "none"
    /\ \A j \in SourceIds : j < id => db[j] # "none"
    /\ db' = [db EXCEPT ![id] = "active"]
    /\ newQ' = IF pubOk
               THEN StreamPublish(newQ, [id |-> id, is_active |-> TRUE, config |-> None])
               ELSE newQ
    /\ IF pubOk THEN UNCHANGED faults ELSE Fail(1)
    /\ UNCHANGED <<notSched, cfg, remQ, jobs, tick, pollStream, remAcked, pollAfterAck, jobReplaced, schedCalls>>

\* PUT /sources/{id}: writes is_active; publishes nothing.
update_source(id, active) ==
    /\ db[id] \in {"active", "inactive"}
    /\ db' = [db EXCEPT ![id] = IF active THEN "active" ELSE "inactive"]
    /\ db'[id] # db[id]
    /\ UNCHANGED <<notSched, cfg, newQ, remQ, jobs, tick, pollStream, remAcked, pollAfterAck, jobReplaced, schedCalls, faults>>

\* DELETE /sources/{id}: delete the row, then publish removed.source; a
\* publish failure is logged and the request still succeeds.
delete_source(id, pubOk) ==
    /\ db[id] \in {"active", "inactive"}
    /\ db' = [db EXCEPT ![id] = "deleted"]
    /\ cfg' = [cfg EXCEPT ![id] = None]
    /\ remQ' = IF pubOk THEN StreamPublish(remQ, [id |-> id]) ELSE remQ
    /\ IF pubOk THEN UNCHANGED faults ELSE Fail(1)
    /\ UNCHANGED <<notSched, newQ, jobs, tick, pollStream, remAcked, pollAfterAck, jobReplaced, schedCalls>>

\* ------------------------------------------------------------------------
\* Scheduler
\* ------------------------------------------------------------------------
\* scheduler.get_job(job_id)
get_job(js, sid) == {j \in js : j.id = sid}

\* scheduler.remove_job(job_id)
remove_job(js, sid) == {j \in js : j.id # sid}

\* scheduler.add_job(..., id = job_id, replace_existing = True) on the
\* started scheduler: the job store holds one job per job id.
add_job(js, job) == {j \in js : j.id # job.id} \cup {job}

\* The interval of a job: config.poll_interval_seconds, or the default.
poll_interval(config) ==
    IF config = None THEN DEFAULT_POLL_INTERVAL_SECONDS ELSE config[1]

\* A scheduling that adds a timer without looking for an existing one.
schedule_poll_job_add_only(js, sid, config, active) ==
    IF ~active THEN js
    ELSE js \cup {[id |-> sid, interval |-> poll_interval(config)]}

\* _schedule_poll_job: inactive -> nothing; otherwise remove the job of
\* that source id if there is one and add the job with the interval of the
\* given config.
schedule_poll_job(js, sid, config, active) ==
    IF ~active THEN js
    ELSE add_job(IF get_job(js, sid) # {} THEN remove_job(js, sid) ELSE js,
                 [id |-> sid, interval |-> poll_interval(config)])

\* The poll_interval_seconds key of a row's config is set in the table.
config_interval_set(id, c) ==
    /\ db[id] \in {"active", "inactive"}
    /\ cfg[id] = None
    /\ c # None
    /\ cfg' = [cfg EXCEPT ![id] = c]
    /\ UNCHANGED <<notSched, db, newQ, remQ, jobs, tick, pollStream, remAcked, pollAfterAck, jobReplaced, schedCalls, faults>>

\* Process start: _bootstrap_db_sources schedules every active row; ticks of
\* the previous process are gone with it.
bootstrap_db_sources ==
    /\ jobs' = {[id |-> i, interval |-> poll_interval(cfg[i])] :
                    i \in {k \in SourceIds : db[k] = "active"}}
    /\ jobs' # jobs \/ \E i \in SourceIds : tick[i] # "idle"
    /\ tick' = [i \in SourceIds |-> "idle"]
    /\ UNCHANGED <<notSched, db, cfg, newQ, remQ, pollStream, remAcked, pollAfterAck, jobReplaced, schedCalls, faults>>

\* _handle_new_source: parse, schedule, ack; the whole body is in one try
\* whose except branch naks.  ackOk / nakOk: whether the broker call raised.
handle_new_source(i, ackOk, nakOk) ==
    /\ i \in Ready(newQ)
    /\ jobs' = schedule_poll_job(jobs, newQ[i].body.id, newQ[i].body.config,
                                 newQ[i].body.is_active)
    /\ newQ' = IF ackOk THEN StreamAck(StreamDeliver(newQ, i), i)
            ELSE IF nakOk THEN StreamNak(StreamDeliver(newQ, i), i, SchedMaxDeliver)
            ELSE StreamDeliver(newQ, i)
    /\ AckNakFaults(ackOk, nakOk)
    /\ schedCalls' = AckThenNakOnError(ackOk, nakOk)
    /\ jobReplaced' =
          IF \E j \in get_job(jobs, newQ[i].body.id) : j \notin jobs'
          THEN jobReplaced \cup {newQ[i].body.id} ELSE jobReplaced
    /\ UNCHANGED <<notSched, db, cfg, remQ, tick, pollStream, remAcked, pollAfterAck>>

\* _handle_removed_source: parse, remove the job if there is one, ack.
handle_removed_source(i, ackOk, nakOk) ==
    /\ i \in Ready(remQ)
    /\ jobs' = IF get_job(jobs, remQ[i].body.id) # {}
               THEN remove_job(jobs, remQ[i].body.id) ELSE jobs
    /\ remQ' = IF ackOk THEN StreamAck(StreamDeliver(remQ, i), i)
            ELSE IF nakOk THEN StreamNak(StreamDeliver(remQ, i), i, SchedMaxDeliver)
            ELSE StreamDeliver(remQ, i)
    /\ remAcked' = IF ackOk THEN remAcked \cup {remQ[i].body.id} ELSE remAcked
    /\ AckNakFaults(ackOk, nakOk)
    /\ schedCalls' = AckThenNakOnError(ackOk, nakOk)
    /\ UNCHANGED <<notSched, db, cfg, newQ, tick, pollStream, pollAfterAck, jobReplaced>>

\* ack_wait (30 s) of a lifecycle message passes without ack or nak.
sched_ack_wait_expires ==
    \/ \E i \in Inflight(newQ) :
          /\ newQ' = StreamNak(newQ, i, SchedMaxDeliver)
          /\ UNCHANGED <<notSched, db, cfg, remQ, jobs, tick, pollStream, remAcked, pollAfterAck, jobReplaced, schedCalls, faults>>
    \/ \E i \in Inflight(remQ) :
          /\ remQ' = StreamNak(remQ, i, SchedMaxDeliver)
          /\ UNCHANGED <<notSched, db, cfg, newQ, jobs, tick, pollStream, remAcked, pollAfterAck, jobReplaced, schedCalls, faults>>

\* _publish_poll_event up to the await of publish: the job fires, the row is
\* read; no row -> the tick ends; otherwise the PollSource message is built
\* from the row and the coroutine waits for the broker.
tick_read(id) ==
    /\ get_job(jobs, id) # {}
    /\ tick[id] \in {"idle", "failed"}
    /\ Len(pollStream) < MaxPolls
    /\ db[id] \in {"active", "inactive"}
    /\ tick' = [tick EXCEPT ![id] = db[id]]
    /\ UNCHANGED <<notSched, db, cfg, newQ, remQ, jobs, pollStream, remAcked, pollAfterAck, jobReplaced, schedCalls, faults>>

\* The job fires for a source that has no row: logged, nothing published.
tick_not_found(id) ==
    /\ get_job(jobs, id) # {}
    /\ tick[id] \in {"idle", "failed"}
    /\ db[id] \in {"none", "deleted"}
    /\ UNCHANGED <<notSched, schedVars, faults>>

\* The broker stores the poll.source message: it is emitted.
tick_published(id) ==
    /\ tick[id] \in {"active", "inactive"}
    /\ pollStream' = StreamPublish(pollStream, [id |-> id, is_active |-> tick[id] = "active", url_ok |-> TRUE])
    /\ pollAfterAck' = IF id \in remAcked THEN pollAfterAck \cup {id} ELSE pollAfterAck
    /\ tick' = [tick EXCEPT ![id] = "idle"]
    /\ UNCHANGED <<notSched, db, cfg, newQ, remQ, jobs, remAcked, jobReplaced, schedCalls, faults>>

\* The job fires and the session or the query raises (the database is
\* down): logged by the tick's except branch; the job stays.
tick_read_failed(id) ==
    /\ get_job(jobs, id) # {}
    /\ tick[id] \in {"idle", "failed"}
    /\ tick' = [tick EXCEPT ![id] = "failed"]
    /\ Fail(1)
    /\ UNCHANGED <<notSched, db, cfg, newQ, remQ, jobs, pollStream, remAcked, pollAfterAck, jobReplaced, schedCalls>>

\* A tick whose failing publish takes the job off the scheduler.
tick_publish_failed_cancels(id) ==
    /\ tick[id] \in {"active", "inactive"}
    /\ tick' = [tick EXCEPT ![id] = "failed"]
    /\ jobs' = remove_job(jobs, id)
    /\ Fail(1)
    /\ UNCHANGED <<notSched, db, cfg, newQ, remQ, pollStream, remAcked, pollAfterAck, jobReplaced, schedCalls>>

\* The publish raises: logged by the tick's except branch; the job stays.
tick_publish_failed(id) ==
    /\ tick[id] \in {"active", "inactive"}
    /\ tick' = [tick EXCEPT ![id] = "failed"]
    /\ Fail(1)
    /\ UNCHANGED <<notSched, db, cfg, newQ, remQ, jobs, pollStream, remAcked, pollAfterAck, jobReplaced, schedCalls>>

\* ------------------------------------------------------------------------
\* Connector
\* ------------------------------------------------------------------------
\* Sources whose poll.source messages reach the connector.
MaxPolled == 1

MaxHrefs == 2

MaxPollMsgs == 2

NumConnectors == 2

ConnMaxDeliver == 3

PolledIds == 1..MaxPolled

Hrefs == 1..MaxHrefs

Pairs == PolledIds \X Hrefs

Connectors == 1..NumConnectors

ConnIdle == [pc |-> "idle", msg |-> 0, links |-> {}, pend |-> {}]

ConnInit ==
    /\ processed = {}
    /\ conn = [w \in Connectors |-> ConnIdle]
    /\ rawOut = [p \in Pairs |-> 0]
    /\ insertedBy = [p \in Pairs |-> 0]
    /\ seenAgain = {}

\* The scheduler's tick as the connector sees it: a poll.source message
\* arrives on the stream.
poll_emitted(sid, urlOk) ==
    /\ Len(pollStream) < MaxPollMsgs
    /\ pollStream' = StreamPublish(pollStream, [id |-> sid, is_active |-> TRUE, url_ok |-> urlOk])
    /\ UNCHANGED <<notConn, connVars, faults>>

\* First loop of the handler: the links whose (source_id, href) has no row.
unseen_links(sid, links, table) == {h \in links : <<sid, h>> \notin table}

\* Mutant of links_to_publish: the publish loop runs over every scraped
\* link, without the dedup filter.
links_to_publish_unfiltered(sid, links, table) == links

\* The list comprehension after the commit: the links that get a RawEvent
\* are those for which the table, read again, has no row.
links_to_publish(sid, links, table) == {h \in links : <<sid, h>> \notin table}

\* poll_source_event_handler up to the scrape: fetch, parse, resolve the
\* URL; a URL that is not http(s) is acked and dropped.
conn_receive(w, i, ackOk, nakOk) ==
    /\ conn[w].pc = "idle"
    /\ i \in Ready(pollStream)
    /\ IF pollStream[i].body.url_ok
       THEN /\ ackOk /\ nakOk
            /\ pollStream' = StreamDeliver(pollStream, i)
            /\ conn' = [conn EXCEPT ![w] = [ConnIdle EXCEPT !.pc = "scrape", !.msg = i]]
            /\ UNCHANGED faults
       ELSE /\ pollStream' =
              IF ackOk THEN StreamAck(StreamDeliver(pollStream, i), i)
              ELSE IF nakOk THEN StreamNak(StreamDeliver(pollStream, i), i, ConnMaxDeliver)
              ELSE StreamDeliver(pollStream, i)
            /\ AckNakFaults(ackOk, nakOk)
            /\ UNCHANGED conn
    /\ UNCHANGED <<notConn, processed, rawOut, insertedBy, seenAgain>>

\* _scrape_links returns; the session's first loop queries the table for
\* every link and adds a row for each unseen one (not yet committed).
conn_scraped(w, links) ==
    /\ conn[w].pc = "scrape"
    /\ conn' = [conn EXCEPT ![w].pc = "commit", ![w].links = links,
               ![w].pend = unseen_links(pollStream[conn[w].msg].body.id, links, processed)]
    /\ UNCHANGED <<notConn, pollStream, processed, rawOut, insertedBy, seenAgain, faults>>

\* The scrape raises (timeout, browser error): the except branch naks.
conn_scrape_failed(w, nakOk) ==
    /\ conn[w].pc = "scrape"
    /\ pollStream' = IF nakOk THEN StreamNak(pollStream, conn[w].msg, ConnMaxDeliver)
                  ELSE pollStream
    /\ IF nakOk THEN UNCHANGED faults ELSE Fail(1)
    /\ conn' = [conn EXCEPT ![w] = ConnIdle]
    /\ UNCHANGED <<notConn, processed, rawOut, insertedBy, seenAgain>>

\* db.commit() hits the unique constraint: another process committed one of
\* the pending rows in between; the transaction is rolled back, nak.
conn_commit_conflict(w, nakOk) ==
    /\ conn[w].pc = "commit"
    /\ \E h \in conn[w].pend : <<pollStream[conn[w].msg].body.id, h>> \in processed
    /\ pollStream' = IF nakOk THEN StreamNak(pollStream, conn[w].msg, ConnMaxDeliver)
                  ELSE pollStream
    /\ IF nakOk THEN UNCHANGED faults ELSE Fail(1)
    /\ conn' = [conn EXCEPT ![w] = ConnIdle]
    /\ UNCHANGED <<notConn, processed, rawOut, insertedBy, seenAgain>>

\* db.commit() succeeds; then one RawEvent is published per link selected by
\* the list comprehension, and the message is acked.  pubOk = FALSE: the
\* publish of one selected link raises after the links in `sent` went out.
conn_commit_publish(w, sent, pubOk, ackOk, nakOk) ==
    LET sid  == pollStream[conn[w].msg].body.id
        rows == {<<sid, h>> : h \in conn[w].pend}
        todo == links_to_publish(sid, conn[w].links, processed \cup rows)
        m    == conn[w].msg
    IN  /\ conn[w].pc = "commit"
        /\ rows \cap processed = {}
        /\ processed' = processed \cup rows
        /\ insertedBy' = [p \in Pairs |-> IF p \in rows THEN m ELSE insertedBy[p]]
        /\ seenAgain' = seenAgain \cup {<<sid, h>> : h \in conn[w].links \ conn[w].pend}
        /\ IF pubOk THEN sent = todo ELSE (sent \subseteq todo /\ sent # todo)
        /\ rawOut' = [p \in Pairs |-> IF p[1] = sid /\ p[2] \in sent
                                      THEN rawOut[p] + 1 ELSE rawOut[p]]
        /\ pollStream' =
              IF pubOk /\ ackOk THEN StreamAck(pollStream, m)
              ELSE IF nakOk THEN StreamNak(pollStream, m, ConnMaxDeliver)
              ELSE pollStream
        /\ IF pubOk THEN AckNakFaults(ackOk, nakOk)
           ELSE (ackOk /\ IF nakOk THEN Fail(1) ELSE Fail(2))
        /\ conn' = [conn EXCEPT ![w] = ConnIdle]
        /\ UNCHANGED notConn

\* The connector process dies in the middle of a handler: the open
\* transaction is rolled back and the message stays unacknowledged.
conn_crash(w) ==
    /\ conn[w].pc # "idle"
    /\ conn' = [conn EXCEPT ![w] = ConnIdle]
    /\ UNCHANGED <<notConn, pollStream, processed, rawOut, insertedBy, seenAgain, faults>>

\* ack_wait (60 s) of a poll.source message passes without ack or nak.
conn_ack_wait_expires(i) ==
    /\ i \in Inflight(pollStream)
    /\ \A w \in Connectors : conn[w].msg # i
    /\ pollStream' = StreamNak(pollStream, i, ConnMaxDeliver)
    /\ UNCHANGED <<notConn, connVars, faults>>

\* ------------------------------------------------------------------------
\* Vector store adapter (QdrantLogic)
\* ------------------------------------------------------------------------
MaxEvents == 3

\* FilteredEvents published during one run.
MaxFiltered == 1

EventIds == 1..MaxEvents

\* The events of a run: RawEvent.content as the filter passes it on (odd
\* ids have text, even ids an empty content), and the category list the
\* LLM answer for that content splits into: a configured category followed
\* by one the configuration does not know, or, for an answer with nothing
\* between the commas, no category at all.
EventContent(e) == IF e % 2 = 1 THEN "text" ELSE ""

EventCategories(e) == IF e % 2 = 1 THEN <<"outage", "rumour">> ELSE <<>>

\* The payload keys the services read or write (title and source are carried
\* along unchanged and left out).
EmptyPayload ==
    [id |-> None, content |-> None, timestamp |-> None, categories |-> None,
     is_relevant |-> None,
     importance_score |-> None, recency_score |-> None, final_score |-> None,
     score |-> None, is_anomaly |-> None, original_id |-> None]

\* A point id drawn anew on every write.
hash_id_per_call(event_id) == <<"uuid4", Cardinality(store)>>

\* _hash_id: the first 128 bits of SHA-256(event_id) laid out as a UUID - a
\* function of the id alone, and collision-free on the ids of a run.
hash_id(event_id) == <<"sha256", event_id>>

\* {**event_data, "original_id": str(event_id)}
WithOriginalId(data) == [data EXCEPT !.original_id = data.id]

\* client.upsert: the point replaces whatever is stored under its id.
client_upsert(st, point) == {p \in st : p.key # point.key} \cup {point}

\* client.set_payload: the keys of the patch are overwritten, the rest of
\* the stored payload and the vector stay.
client_set_payload(st, key, patch) ==
    {IF p.key = key
     THEN [p EXCEPT !.payload = [f \in DOMAIN p.payload |->
                                    IF patch[f] # None THEN patch[f] ELSE p.payload[f]]]
     ELSE p : p \in st}

HasPoint(st, key) == \E p \in st : p.key = key

\* upsert_event: no id -> False; non-empty content -> full upsert with an
\* embedding; otherwise set_payload on the existing point, and when there is
\* none (404) a stub point with a zero vector.
upsert_event(st, data) ==
    IF data.id = None
    THEN [store |-> st, ok |-> FALSE]
    ELSE LET key == hash_id(data.id[1])
         IN  IF data.content # None /\ data.content[1] # ""
             THEN [store |-> client_upsert(st, [key |-> key, vector |-> "embedding",
                                                payload |-> WithOriginalId(data)]),
                   ok |-> TRUE]
             ELSE IF HasPoint(st, key)
             THEN [store |-> client_set_payload(st, key, data), ok |-> TRUE]
             ELSE [store |-> client_upsert(st, [key |-> key, vector |-> "zero",
                                                payload |-> WithOriginalId(data)]),
                   ok |-> TRUE]

\* retrieve_event_by_id: the payload stored under the id's key, or None.
retrieve_event_by_id(st, event_id) ==
    LET found == {p \in st : p.key = hash_id(event_id)}
    IN  IF found = {} THEN None ELSE Some((CHOOSE p \in found : TRUE).payload)

\* upsert_event when the client or the embedding model raises: the except
\* branch logs the error and returns False; nothing is written.
upsert_event_failed(st, data) == [store |-> st, ok |-> FALSE]

count_events(st) == Cardinality(st)

\* A scroll for the relevant records whatever their scores.
list_relevant_events(st) ==
    {p.payload : p \in {q \in st : q.payload.is_relevant = Some(TRUE)}}

\* list_filtered_events: scroll, page by page to the end, for the points
\* whose is_relevant matches True and whose final_score is empty; the
\* payloads are returned (sorted by timestamp, which is left out here).
list_filtered_events(st) ==
    {p.payload : p \in {q \in st : /\ q.payload.is_relevant = Some(TRUE)
                                   /\ q.payload.final_score = None}}

\* The place of a point id in the order the collection scrolls in (point
\* ids ascending).  The ids are hashes, so the order has nothing to do with
\* the event ids or with the time of a write; here it is the reverse of the
\* event ids.
UuidOrder(key) == 0 - key[2]

\* client.scroll without order_by: the first limit of the given points in
\* the order of their ids.
client_scroll(points, limit) ==
    LET n == Cardinality(points)
        place(p) == 1 + Cardinality({q \in points : UuidOrder(q.key) < UuidOrder(p.key)})
        all == [k \in 1..n |-> CHOOSE p \in points : place(p) = k]
    IN  SubSeq(all, 1, IF limit < n THEN limit ELSE n)

\* list.sort(key = ..., reverse = True) on the list whose k-th element has
\* the k-th key: the keys descend, and elements of equal keys keep the order
\* they had (the sort is stable, reversed or not).
sort_reverse(list, keys) ==
    LET n == Len(list)
        place(i) == 1 + Cardinality({j \in 1..n : \/ keys[j] > keys[i]
                                                  \/ keys[j] = keys[i] /\ j < i})
    IN  [k \in 1..n |-> list[CHOOSE i \in 1..n : place(i) = k]]

\* The page of list_ranked_events returned as the scroll delivers it.
list_ranked_events_unsorted(st, limit) ==
    LET records == client_scroll({q \in st : /\ q.payload.final_score # None
                                            /\ q.payload.final_score[1] >= 0}, limit)
    IN  [k \in 1..Len(records) |-> records[k].payload]

\* list_ranked_events: one scroll page of at most limit points whose
\* final_score is in the range gte = 0, sorted by final_score descending.
list_ranked_events(st, limit) ==
    LET records == client_scroll({q \in st : /\ q.payload.final_score # None
                                            /\ q.payload.final_score[1] >= 0}, limit)
        payloads == [k \in 1..Len(records) |-> records[k].payload]
    IN  sort_reverse(payloads, [k \in 1..Len(payloads) |-> payloads[k].final_score[1]])

\* _ts of list_all_events: the timestamp when it is a number, otherwise 0;
\* the payloads carry their timestamps as strings.
all_events_ts(p) == 0

\* list_all_events: one scroll page of at most limit points, sorted by _ts
\* descending.
list_all_events(st, limit) ==
    LET records == client_scroll(st, limit)
        payloads == [k \in 1..Len(records) |-> records[k].payload]
    IN  sort_reverse(payloads, [k \in 1..Len(payloads) |-> all_events_ts(payloads[k])])

\* The stored records of one original id.
RecordsOf(st, event_id) == {p \in st : p.payload.original_id = Some(event_id)}

\* ------------------------------------------------------------------------
\* Filter, steps 3 and 4 of raw_event_handler as written: persist the
\* relevant event, then publish the FilteredEvent.  This is what feeds
\* filtered.events and the store for the ranker and the inspector.
\* ------------------------------------------------------------------------
\* The payload of a filter that persists every classified event with the
\* classifier's verdict, relevant or not.
event_payload_data_any_verdict(e, ts) ==
    [EmptyPayload EXCEPT !.id = Some(e), !.content = Some(EventContent(e)),
                         !.timestamp = Some(ts),
                         !.categories = Some(EventCategories(e)),
                         !.is_relevant = Some(e % 2 = 1)]

\* event_payload_data: built only past the "if not is_relevant: ack, return"
\* branch, so is_relevant is True in every payload the filter persists.
event_payload_data(e, ts) ==
    [EmptyPayload EXCEPT !.id = Some(e), !.content = Some(EventContent(e)),
                         !.timestamp = Some(ts),
                         !.categories = Some(EventCategories(e)),
                         !.is_relevant = Some(TRUE)]

\* The result of upsert_event is not looked at: the publish follows whether
\* it is True or False.  A raising publish ends in the except branch (nak),
\* otherwise the raw message is acked.  The same id may come again (a
\* redelivered or re-ingested RawEvent); only the publishes are capped.
persist_and_publish_filtered(e, ts, storeOk, pubOk) ==
    LET res == IF storeOk THEN upsert_event(store, event_payload_data(e, ts))
               ELSE upsert_event_failed(store, event_payload_data(e, ts))
        failed == (IF storeOk THEN 0 ELSE 1) + (IF pubOk THEN 0 ELSE 1)
    IN  /\ pubOk => Len(filteredQ) < MaxFiltered
        /\ store' = res.store
        /\ persisted' = IF res.ok THEN [persisted EXCEPT ![e] = @ + 1] ELSE persisted
        /\ filteredQ' = IF pubOk
                        THEN StreamPublish(filteredQ, [id |-> e, timestamp |-> ts,
                                                  categories |-> EventCategories(e),
                                                  decodes |-> TRUE])
                        ELSE filteredQ
        /\ filterRun' = [ran |-> TRUE, stored |-> res.ok, published |-> pubOk,
                         calls |-> IF pubOk THEN <<"ack">> ELSE <<"nak">>]
        /\ IF failed = 0 THEN UNCHANGED faults ELSE Fail(failed)
        /\ UNCHANGED <<notRank, rankedQ, rk, ins>>

\* ------------------------------------------------------------------------
\* Ranker
\* ------------------------------------------------------------------------
RankMaxDeliver == 3

\* category_importance_scores of the ranker configuration, in tenths.
CategoryWeight(c) ==
    CASE c = "outage" -> 8
      [] c = "cybersecurity" -> 9
      [] OTHER -> 1

RECURSIVE calculate_importance_score(_)
\* The loop over the categories: the sum of their weights, 0.0 for none.
calculate_importance_score(cats) ==
    IF cats = <<>> THEN 0
    ELSE CategoryWeight(Head(cats)) + calculate_importance_score(Tail(cats))

\* RawEvent.timestamp as the producers write it: the connector's
\* datetime.utcnow().isoformat() has no UTC offset; /ingest's
\* published_at.isoformat() carries the offset the client sent; a client of
\* the broker can put any string there.
NaiveTimestamps == {"2025-01-01T00:00:00", "2025-01-02T00:00:00"}

AwareTimestamps == {"2025-01-02T00:00:00+00:00"}

Timestamps == NaiveTimestamps \cup AwareTimestamps \cup {"yesterday"}

\* datetime.fromisoformat: ValueError for a string that is no ISO-8601 date.
fromisoformat_raises(timestamp) == timestamp \notin NaiveTimestamps \cup AwareTimestamps

\* The day of the month the timestamp names.
DayOf(timestamp) == IF timestamp = "2025-01-01T00:00:00" THEN 1 ELSE 2

\* calculate_recency_score subtracts the parsed time from datetime.utcnow(),
\* which has no tzinfo: for a timestamp with an offset the subtraction
\* raises TypeError, outside the function's own try.
recency_raises(timestamp) == timestamp \in AwareTimestamps

\* max_score * 0.5 ^ (age / half_life), age in half-lives, in tenths.
decayed_score(halfLives) == 10 \div (2 ^ halfLives)

\* calculate_recency_score: a timestamp that does not parse is replaced by
\* the current time, so its age is zero whatever the age of the event.
calculate_recency_score(timestamp, halfLives) ==
    IF fromisoformat_raises(timestamp) THEN decayed_score(0)
    ELSE decayed_score(halfLives)

\* ranking_parameters of the ranker configuration, in tenths.
importance_weight == 6

recency_weight == 4

\* importance_weight * importance + recency_weight * recency, in hundredths.
final_score(importance, recency) ==
    importance_weight * importance + recency_weight * recency

\* The age of an event when the ranker handles it, in half-lives.
MaxAge == 1

\* The three scores of a FilteredEvent handled at the given age.
calculate_scores(F, age) ==
    LET imp == calculate_importance_score(F.categories)
        rec == calculate_recency_score(F.timestamp, age)
    IN  [importance |-> imp, recency |-> rec, final |-> final_score(imp, rec)]

\* A write that keeps the final score in whole units only.
ranker_event_data_rounded(data, sc) ==
    [data EXCEPT !.importance_score = Some(sc.importance),
                 !.recency_score = Some(sc.recency),
                 !.final_score = Some((sc.final \div 100) * 100)]

\* The retrieved payload with the three score keys set.
ranker_event_data(data, sc) ==
    [data EXCEPT !.importance_score = Some(sc.importance),
                 !.recency_score = Some(sc.recency),
                 !.final_score = Some(sc.final)]

\* Bytes on filtered.events that are not a serialized FilteredEvent (any
\* client of the broker can publish to the subject): ParseFromString raises
\* DecodeError on them, so no field of the body is ever read.
Undecodable == [id |-> 0, timestamp |-> "yesterday", categories |-> <<>>, decodes |-> FALSE]

undecodable_published ==
    /\ Len(filteredQ) < MaxFiltered
    /\ filteredQ' = StreamPublish(filteredQ, Undecodable)
    /\ UNCHANGED <<notRank, store, rankedQ, rk, ins, persisted, filterRun, faults>>

\* written: the scores of the payload this execution passed to upsert_event;
\* stored: what upsert_event returned.
RkIdle == [pc |-> "idle", msg |-> 0, data |-> None, scores |-> None, written |-> None,
           stored |-> None]

\* filtered_event_handler up to the await of upsert_event: parse, compute
\* the scores (an exception of either, DecodeError included, ends in the
\* except branch: nak), retrieve the stored payload.  No record: the write
\* is skipped.
rk_receive(i, age, nakOk) ==
    /\ rk.pc = "idle"
    /\ i \in Ready(filteredQ)
    /\ LET F == filteredQ[i].body
           d == retrieve_event_by_id(store, F.id)
       IN  IF ~F.decodes \/ recency_raises(F.timestamp)
           THEN /\ filteredQ' =
                      IF nakOk
                      THEN StreamNak(StreamDeliver(filteredQ, i), i, RankMaxDeliver)
                      ELSE StreamDeliver(filteredQ, i)
                /\ IF nakOk THEN UNCHANGED faults ELSE Fail(1)
                /\ UNCHANGED rk
           ELSE /\ nakOk
                /\ filteredQ' = StreamDeliver(filteredQ, i)
                /\ rk' = [pc |-> IF d = None THEN "publish" ELSE "write", msg |-> i,
                           data |-> d, scores |-> Some(calculate_scores(F, age)),
                           written |-> None, stored |-> None]
                /\ UNCHANGED faults
    /\ UNCHANGED <<notRank, store, rankedQ, ins, persisted, filterRun>>

\* upsert_event(event_data); its return value is not looked at.
rk_write(storeOk) ==
    /\ rk.pc = "write"
    /\ LET event_data == ranker_event_data(rk.data[1], rk.scores[1])
           res == IF storeOk THEN upsert_event(store, event_data)
                  ELSE upsert_event_failed(store, event_data)
       IN  /\ store' = res.store
           /\ rk' = [rk EXCEPT !.pc = "publish",
                               !.written = Some([importance |-> event_data.importance_score,
                                                 recency |-> event_data.recency_score,
                                                 final |-> event_data.final_score]),
                               !.stored = Some(res.ok)]
    /\ IF storeOk THEN UNCHANGED faults ELSE Fail(1)
    /\ UNCHANGED <<notRank, filteredQ, rankedQ, ins, persisted, filterRun>>

\* Publish the RankedEvent, then ack; any exception of the two ends in the
\* except branch, which naks.
rk_publish(pubOk, ackOk, nakOk) ==
    LET F == filteredQ[rk.msg].body
    IN  /\ rk.pc = "publish"
        /\ rankedQ' = IF pubOk
                      THEN StreamPublish(rankedQ,
                               [id |-> F.id, categories |-> F.categories,
                                importance_score |-> rk.scores[1].importance,
                                recency_score |-> rk.scores[1].recency,
                                final_score |-> rk.scores[1].final])
                      ELSE rankedQ
        /\ filteredQ' =
              IF pubOk /\ ackOk THEN StreamAck(filteredQ, rk.msg)
              ELSE IF nakOk THEN StreamNak(filteredQ, rk.msg, RankMaxDeliver)
              ELSE filteredQ
        /\ IF pubOk THEN AckNakFaults(ackOk, nakOk)
           ELSE (ackOk /\ IF nakOk THEN Fail(1) ELSE Fail(2))
        /\ rk' = RkIdle
        /\ UNCHANGED <<notRank, store, ins, persisted, filterRun>>

\* ack_wait (60 s) of a filtered.events message passes without ack or nak.
rk_ack_wait_expires(i) ==
    /\ i \in Inflight(filteredQ)
    /\ rk.msg # i
    /\ filteredQ' = StreamNak(filteredQ, i, RankMaxDeliver)
    /\ UNCHANGED <<notRank, store, rankedQ, rk, ins, persisted, filterRun, faults>>

\* ------------------------------------------------------------------------
\* Inspector
\* ------------------------------------------------------------------------
InspMaxDeliver == 3

\* What the detectors of a run come to: none trips, one trips, or none
\* trips and the LLM call of llm_anomaly_detector raises.
DetectorOutcomes == {"clean", "anomaly", "llm_failed"}

\* check_for_anomalies: True when a detector trips; an exception of the LLM
\* call is logged inside the loop, which goes on to "return False".
check_for_anomalies(outcome) == outcome = "anomaly"

\* llm_failed: the LLM call of this execution raised; stored: what
\* upsert_event returned.
InsIdle == [pc |-> "idle", msg |-> 0, data |-> None, llm_failed |-> FALSE,
            is_anomaly |-> FALSE, stored |-> None]

\* ranked_event_handler up to check_for_anomalies: retrieve the stored
\* payload; none -> ack and return; otherwise add the message's final_score
\* under the key "score".
ins_receive(i, ackOk, nakOk) ==
    LET R == rankedQ[i].body
        d == retrieve_event_by_id(store, R.id)
    IN  /\ ins.pc = "idle"
        /\ i \in Ready(rankedQ)
        /\ IF d = None
           THEN /\ rankedQ' =
                      IF ackOk THEN StreamAck(StreamDeliver(rankedQ, i), i)
                      ELSE IF nakOk
                      THEN StreamNak(StreamDeliver(rankedQ, i), i, InspMaxDeliver)
                      ELSE StreamDeliver(rankedQ, i)
                /\ AckNakFaults(ackOk, nakOk)
                /\ ins' = InsIdle
           ELSE /\ ackOk /\ nakOk
                /\ rankedQ' = StreamDeliver(rankedQ, i)
                /\ ins' = [InsIdle EXCEPT !.pc = "check", !.msg = i,
                              !.data = Some([d[1] EXCEPT !.score = Some(R.final_score)])]
                /\ UNCHANGED faults
        /\ UNCHANGED <<notRank, store, filteredQ, rk, persisted, filterRun>>

\* is_anomaly = await check_for_anomalies(event_data): the detectors answer.
ins_check(outcome) ==
    /\ ins.pc = "check"
    /\ ins' = [ins EXCEPT !.pc = IF check_for_anomalies(outcome) THEN "write" ELSE "ack",
                          !.is_anomaly = check_for_anomalies(outcome),
                          !.llm_failed = (outcome = "llm_failed")]
    /\ IF outcome = "llm_failed" THEN Fail(1) ELSE UNCHANGED faults
    /\ UNCHANGED <<notRank, store, filteredQ, rankedQ, rk, persisted, filterRun>>

\* The payload the inspector passes to upsert_event for an anomaly.
inspector_event_data(data) == [data EXCEPT !.is_anomaly = Some(TRUE)]

\* An anomaly is written back: the retrieved payload, with the key "score"
\* added on receipt and is_anomaly set; the result of upsert_event is only
\* logged.
ins_write(storeOk) ==
    /\ ins.pc = "write"
    /\ LET res == IF storeOk THEN upsert_event(store, inspector_event_data(ins.data[1]))
                  ELSE upsert_event_failed(store, inspector_event_data(ins.data[1]))
       IN  /\ store' = res.store
           /\ ins' = [ins EXCEPT !.pc = "ack", !.stored = Some(res.ok)]
    /\ IF storeOk THEN UNCHANGED faults ELSE Fail(1)
    /\ UNCHANGED <<notRank, filteredQ, rankedQ, rk, persisted, filterRun>>

\* await msg.ack(), inside the try: when it raises, the except branch naks.
ins_ack(ackOk, nakOk) ==
    /\ ins.pc = "ack"
    /\ rankedQ' = IF ackOk THEN StreamAck(rankedQ, ins.msg)
                  ELSE IF nakOk THEN StreamNak(rankedQ, ins.msg, InspMaxDeliver)
                  ELSE rankedQ
    /\ AckNakFaults(ackOk, nakOk)
    /\ ins' = InsIdle
    /\ UNCHANGED <<notRank, store, filteredQ, rk, persisted, filterRun>>

\* ack_wait (60 s) of a ranked.events message passes without ack or nak.
ins_ack_wait_expires(i) ==
    /\ i \in Inflight(rankedQ)
    /\ ins.msg # i
    /\ rankedQ' = StreamNak(rankedQ, i, InspMaxDeliver)
    /\ UNCHANGED <<notRank, store, filteredQ, rk, ins, persisted, filterRun, faults>>

RankInit ==
    /\ store = {}
    /\ filteredQ = <<>>
    /\ rankedQ = <<>>
    /\ rk = RkIdle
    /\ ins = InsIdle
    /\ persisted = [e \in EventIds |-> 0]
    /\ filterRun = [ran |-> FALSE, stored |-> FALSE, published |-> FALSE, calls |-> <<>>]

\* ------------------------------------------------------------------------
\* Filter
\* ------------------------------------------------------------------------
\* RawEvents published during one run.
MaxRaw == 1

FilterMaxDeliver == 3

GuardianMaxDeliver == 1

\* What an event meets at the filter: relevant is the LLM's answer for its
\* content; outages is the number of its first deliveries that fall into an
\* outage of the LLM provider (none, or all but the last allowed delivery).
Scenarios ==
    {[relevant |-> FALSE, outages |-> 0],
     [relevant |-> TRUE, outages |-> 0],
     [relevant |-> TRUE, outages |-> FilterMaxDeliver - 1]}

\* ALERTERS, by default "logging,fake_message".
Alerters == {"logging", "fake_message"}

\* The broker's max-deliveries advisory for message i of a stream, captured
\* by the DLQ stream (subject $JS.EVENT.ADVISORY.CONSUMER.MAX_DELIVERIES.>).
Advisory(name, i) == [stream |-> name, seq |-> i, form |-> "ok"]

\* Bytes on the advisory subject that the broker did not write (any client
\* can publish there): no JSON at all, or a JSON object without stream,
\* consumer or stream_seq.
MalformedForms == {"not_json", "missing_field"}

\* Malformed advisories published during one run.
MaxMalformed == 1

\* js.delete_msg
DeleteMsg(s, i) == [s EXCEPT ![i].st = "deleted"]

FilterInit ==
    /\ rawQ = <<>>
    /\ dlq = <<>>
    /\ guardianMain = "starting"
    /\ alerts = [a \in Alerters |-> 0]
    /\ alertRun = [failed |-> {}, invoked |-> {}, calls |-> <<>>]

\* The status of POST /ingest: the decorator's HTTP_200_OK, whatever the
\* loop over the events did.
ingest_status(events, published) == 200

\* POST /ingest with a batch of one event: an event with an empty required
\* field is skipped; otherwise the RawEvent is published, and a publish
\* failure is logged and the loop goes on.  Then the success message is
\* returned.
ingest_data(e, sc, valid, pubOk) ==
    LET sent == valid /\ pubOk
    IN  /\ Len(rawQ) < MaxRaw
        /\ valid \/ pubOk
        /\ rawQ' = IF sent
                   THEN StreamPublish(rawQ, [id |-> e, relevant |-> sc.relevant,
                                             outages |-> sc.outages])
                   ELSE rawQ
        /\ ingestCall' = [events |-> 1, published |-> IF sent THEN 1 ELSE 0,
                          status |-> ingest_status(1, IF sent THEN 1 ELSE 0)]
        /\ IF pubOk THEN UNCHANGED faults ELSE Fail(1)
        /\ UNCHANGED <<schedVars, connVars, rankVars, alertVars, lifeVars, upsertVars, response, dlq,
                       guardianMain, alerts>>

\* raw_event_handler: its first statement reads the module-level name
\* readiness_probe, which main() binds as a local only; the NameError is
\* raised before the try, so neither ack nor nak is called, nothing is
\* classified, stored or published, and message_handler logs the exception.
raw_event_handler(i) ==
    /\ i \in Ready(rawQ)
    /\ rawQ' = StreamDeliver(rawQ, i)
    /\ UNCHANGED <<notFilter, dlq, guardianMain, alerts, faults>>

\* ack_wait (60 s) of a raw.events message passes without ack or nak; on
\* the last allowed delivery the broker gives the message up and emits the
\* advisory.
raw_ack_wait_expires(i) ==
    /\ i \in Inflight(rawQ)
    /\ rawQ' = StreamNak(rawQ, i, FilterMaxDeliver)
    /\ dlq' = IF rawQ'[i].st = "dead" THEN StreamPublish(dlq, Advisory("raw", i))
              ELSE dlq
    /\ UNCHANGED <<notFilter, guardianMain, alerts, faults>>

\* ------------------------------------------------------------------------
\* Guardian
\* ------------------------------------------------------------------------
\* guardian/main.py: main() constructs JetStreamEventSubscriber without its
\* required arguments; the TypeError ends the process before it subscribes,
\* so its dlq_handler (the one that calls the alerters) never runs.
guardian_main_start ==
    /\ guardianMain = "starting"
    /\ guardianMain' = "crashed"
    /\ UNCHANGED <<notFilter, rawQ, dlq, alerts, faults>>

\* The guardian's consumer is created with max_deliver equal to the workers'.
guardian_redelivery_as_workers(s, j) == StreamNak(s, j, FilterMaxDeliver)

\* The guardian's consumer: ack_wait = 30, max_deliver = 1.
guardian_redelivery(s, j) == StreamNak(s, j, GuardianMaxDeliver)

malformed_advisory_published(form) ==
    /\ Cardinality({j \in DOMAIN dlq : dlq[j].body.form # "ok"}) < MaxMalformed
    /\ dlq' = StreamPublish(dlq, [stream |-> "none", seq |-> 0, form |-> form])
    /\ UNCHANGED <<notFilter, rawQ, guardianMain, alerts, faults>>

\* The parse step of dlq_event_handler: what it does with the advisory.
\* json.loads raising JSONDecodeError is caught by the inner except: ack
\* and return.  For a missing field the handler raises ValueError, which
\* the inner except (JSONDecodeError, KeyError, AttributeError) does not
\* catch: it reaches the outer except, which only logs.
parse_advisory(form) ==
    CASE form = "ok" -> "process"
      [] form = "not_json" -> "ack_drop"
      [] form = "missing_field" -> "log_only"

\* A handler that acks the advisory whether or not the failing message was
\* fetched and deleted.
dlq_event_handler_ack_anyway(j, outcome) ==
    LET a == dlq[j].body
        d == StreamDeliver(dlq, j)
        e == IF outcome # "ack_failed" THEN StreamAck(d, j) ELSE d
    IN  /\ j \in Ready(dlq)
        /\ IF outcome = "ok" THEN UNCHANGED faults ELSE Fail(1)
        /\ CASE parse_advisory(a.form) = "log_only" ->
                   /\ outcome = "ok"
                   /\ dlq' = d
                   /\ UNCHANGED rawQ
             [] parse_advisory(a.form) = "ack_drop" ->
                   /\ outcome # "process_failed"
                   /\ dlq' = e
                   /\ UNCHANGED rawQ
             [] OTHER ->
                   IF outcome = "process_failed"
                   THEN /\ dlq' = e
                        /\ UNCHANGED rawQ
                   ELSE IF a.stream = "raw"
                   THEN /\ rawQ' = DeleteMsg(rawQ, a.seq)
                        /\ dlq' = e
                   ELSE /\ dlq' = DeleteMsg(e, a.seq)
                        /\ UNCHANGED rawQ
        /\ UNCHANGED <<notFilter, guardianMain, alerts>>

\* guardian_service.py, dlq_event_handler: parse the advisory, get_msg,
\* delete_msg, ack_sync; no alerter is involved.  An exception of get_msg
\* or delete_msg ("process_failed") or of ack_sync ("ack_failed") is logged
\* by the outer except: the advisory is neither acked nor nak'd.
dlq_event_handler(j, outcome) ==
    LET a == dlq[j].body
        d == StreamDeliver(dlq, j)
        e == IF outcome = "ok" THEN StreamAck(d, j) ELSE d
    IN  /\ j \in Ready(dlq)
        /\ IF outcome = "ok" THEN UNCHANGED faults ELSE Fail(1)
        /\ CASE parse_advisory(a.form) = "log_only" ->
                   /\ outcome = "ok"
                   /\ dlq' = d
                   /\ UNCHANGED rawQ
             [] parse_advisory(a.form) = "ack_drop" ->
                   /\ outcome # "process_failed"
                   /\ dlq' = e
                   /\ UNCHANGED rawQ
             [] OTHER ->
                   IF outcome = "process_failed"
                   THEN /\ dlq' = d
                        /\ UNCHANGED rawQ
                   ELSE IF a.stream = "raw"
                   THEN /\ rawQ' = DeleteMsg(rawQ, a.seq)
                        /\ dlq' = e
                   ELSE /\ dlq' = DeleteMsg(e, a.seq)
                        /\ UNCHANGED rawQ
        /\ UNCHANGED <<notFilter, guardianMain, alerts>>

\* get_alerters: the alerters in the order of ALERTER_TYPES.
get_alerters == <<"logging", "fake_message">>

\* "for alerter in alerters: await alerter.send_alert(...)" inside the try:
\* the alerters invoked when send_alert of those in failing raises - every
\* one up to the first that raises, which ends the loop.
alerters_invoked(failing) ==
    {get_alerters[k] : k \in {n \in DOMAIN get_alerters :
                                 \A m \in 1..(n - 1) : get_alerters[m] \notin failing}}

\* guardian/main.py, dlq_handler, run on a message of the dead-letter
\* stream: send_alert on the alerters, then ack; an exception of either is
\* logged by the except branch, which does not nak.
dlq_handler(j, failing, ackOk) ==
    LET acks == failing = {} /\ ackOk
        d == StreamDeliver(dlq, j)
    IN  /\ j \in Ready(dlq)
        /\ failing # {} => ackOk
        /\ alerts' = [a \in Alerters |->
                         IF a \in alerters_invoked(failing) THEN alerts[a] + 1 ELSE alerts[a]]
        /\ dlq' = IF acks THEN StreamAck(d, j) ELSE d
        /\ alertRun' = [failed |-> failing, invoked |-> alerters_invoked(failing),
                        calls |-> IF failing = {} THEN <<"ack">> ELSE <<>>]
        /\ IF acks THEN UNCHANGED faults ELSE Fail(1)
        /\ UNCHANGED <<schedVars, connVars, rankVars, apiVars, lifeVars, upsertVars, rawQ,
                       guardianMain>>

\* ack_wait (60 s) of the consumer "guardian-dlq-monitor" passes without an
\* ack: the consumer sets no max_deliver, so the message is delivered again.
alert_ack_wait_expires(j) ==
    /\ j \in Inflight(dlq)
    /\ dlq' = [dlq EXCEPT ![j].st = "ready"]
    /\ UNCHANGED <<notFilter, rawQ, guardianMain, alerts, faults>>

\* ack_wait (30 s) of an advisory passes without an ack.
dlq_ack_wait_expires(j) ==
    /\ j \in Inflight(dlq)
    /\ LET d == guardian_redelivery(dlq, j)
       IN  dlq' = IF d[j].st = "dead" THEN StreamPublish(d, Advisory("dlq", j)) ELSE d
    /\ UNCHANGED <<notFilter, rawQ, guardianMain, alerts, faults>>

\* ------------------------------------------------------------------------
\* Specifications
\* ------------------------------------------------------------------------
\* ------------------------------------------------------------------------
\* A worker process (filter, ranker, inspector, connector): main() and the
\* JetStreamEventSubscriber it runs
\* ------------------------------------------------------------------------
\* Pings, handled messages and disconnects of one run.
MaxPings == 2

MaxHandled == 1

MaxDisconnects == 2

LifeInit ==
    /\ mainTask = "starting"
    /\ nc = "new"
    /\ ping_event = FALSE
    /\ ping_thread = "none"
    /\ pings = 0
    /\ handled = 0
    /\ disconnects = 0
    /\ closeCalled = {}

\* main() awaits connect_and_subscribe: nc.connect, the ping thread is
\* started, pull_subscribe, and the "while True" fetch loop is entered.
connect_and_subscribe ==
    /\ mainTask = "starting"
    /\ mainTask' = "fetching"
    /\ nc' = "connected"
    /\ ping_thread' = "check"
    /\ UNCHANGED <<notLife, ping_event, pings, handled, disconnects, closeCalled, faults>>

\* psub.fetch(1, timeout = 5) returns a message, which goes to
\* message_handler.
fetch ==
    /\ mainTask = "fetching"
    /\ nc = "connected"
    /\ handled < MaxHandled
    /\ mainTask' = "handling"
    /\ handled' = handled + 1
    /\ UNCHANGED <<notLife, nc, ping_event, ping_thread, pings, disconnects, closeCalled, faults>>

\* message_handler returns (it logs the exceptions of the event handler);
\* the loop fetches again.
message_handler ==
    /\ mainTask = "handling"
    /\ mainTask' = "fetching"
    /\ UNCHANGED <<notLife, nc, ping_event, ping_thread, pings, handled, disconnects,
                   closeCalled, faults>>

\* What main() does when the fetch loop is left by an exception: the loop
\* is inside connect_and_subscribe, which main() awaits in a try of its
\* own with "except Exception: return"; the try whose finally calls
\* close() on the subscriber and the publisher comes after that await and
\* is never entered.  CancelledError passes the except and ends main().
closed_on_exit == {}

\* The shutdown signal: the main task is cancelled while it awaits a fetch
\* or a handler; CancelledError leaves the fetch loop, connect_and_subscribe
\* and main(), and the process exits (the daemon ping thread with it).
main_cancelled ==
    /\ mainTask \in {"fetching", "handling"}
    /\ mainTask' = "exited"
    /\ closeCalled' = closeCalled \cup closed_on_exit
    /\ ping_thread' = "exited"
    /\ UNCHANGED <<notLife, nc, ping_event, pings, handled, disconnects, faults>>

\* keep_alive_ping at its while test: the event is set -> the loop ends;
\* otherwise _send_ping, which raises on a connection that is not up
\* (except: log, break) and otherwise is followed by the sleep.
keep_alive_ping(pingOk) ==
    /\ ping_thread = "check"
    /\ nc = "connected" => pingOk
    /\ IF ping_event \/ ~pingOk
       THEN /\ ping_thread' = "exited"
            /\ UNCHANGED pings
       ELSE /\ pings < MaxPings
            /\ pings' = pings + 1
            /\ ping_thread' = "sleeping"
    /\ UNCHANGED <<notLife, mainTask, nc, ping_event, handled, disconnects, closeCalled, faults>>

\* asyncio.sleep(interval) of the ping loop is over.
keep_alive_wake ==
    /\ ping_thread = "sleeping"
    /\ ping_thread' = "check"
    /\ UNCHANGED <<notLife, mainTask, nc, ping_event, pings, handled, disconnects, closeCalled,
                   faults>>

\* disconnected_cb: the event is set.
disconnected_event ==
    /\ nc = "connected"
    /\ mainTask # "exited"
    /\ disconnects < MaxDisconnects
    /\ nc' = "disconnected"
    /\ disconnects' = disconnects + 1
    /\ ping_event' = TRUE
    /\ UNCHANGED <<notLife, mainTask, ping_thread, pings, handled, closeCalled, faults>>

\* reconnected_cb: the event is cleared; no thread is started.  (The
\* callback is declared with a parameter nc; when the client library calls
\* it without one, the call raises before the clear.)
reconnected_event(called) ==
    /\ nc = "disconnected"
    /\ mainTask # "exited"
    /\ nc' = "connected"
    /\ ping_event' = IF called THEN FALSE ELSE ping_event
    /\ UNCHANGED <<notLife, mainTask, ping_thread, pings, handled, disconnects, closeCalled,
                   faults>>

\* closed_cb, after max_reconnect_attempts: the event is set.
closed_event ==
    /\ nc = "disconnected"
    /\ mainTask # "exited"
    /\ nc' = "closed"
    /\ ping_event' = TRUE
    /\ UNCHANGED <<notLife, mainTask, ping_thread, pings, handled, disconnects, closeCalled,
                   faults>>

\* ------------------------------------------------------------------------
\* API: the news endpoints
\* ------------------------------------------------------------------------
\* The largest limit a client asks for.
MaxLimit == 3

NoResponse == [endpoint |-> "none", limit |-> 0, status |-> 0, body |-> <<>>]

ApiInit ==
    /\ response = NoResponse
    /\ ingestCall = [events |-> 0, published |-> 0, status |-> 0]

\* GET /news/ranked: the list of list_ranked_events; an exception of the
\* store client becomes status 500.
get_ranked_news(limit, ok) ==
    /\ response' = IF ok
                   THEN [endpoint |-> "/news/ranked", limit |-> limit, status |-> 200,
                         body |-> list_ranked_events(store, limit)]
                   ELSE [endpoint |-> "/news/ranked", limit |-> limit, status |-> 500,
                         body |-> <<>>]
    /\ UNCHANGED <<notApi, ingestCall, faults>>

\* GET /news: the list of list_all_events; an exception of the store client
\* becomes status 500.
get_all_news(limit, ok) ==
    /\ response' = IF ok
                   THEN [endpoint |-> "/news", limit |-> limit, status |-> 200,
                         body |-> list_all_events(store, limit)]
                   ELSE [endpoint |-> "/news", limit |-> limit, status |-> 500,
                         body |-> <<>>]
    /\ UNCHANGED <<notApi, ingestCall, faults>>

\* What the pipeline has made of an event when a client reads: the
\* timestamp the filter stored (an ISO-8601 string), and the age at which
\* the ranker scored it, if it has.  Only a timestamp without offset gets
\* past the ranker's recency computation.
RecordShapes ==
    {sh \in [timestamp : NaiveTimestamps \cup AwareTimestamps,
             scored : {None} \cup {Some(age) : age \in 0..MaxAge}] :
        sh.scored # None => sh.timestamp \in NaiveTimestamps}

\* The stored point of an event of that shape: the filter's write followed,
\* for a scored event, by the ranker's.
StoredAs(e, sh) ==
    LET filtered == upsert_event({}, event_payload_data(e, sh.timestamp)).store
        F == [id |-> e, timestamp |-> sh.timestamp, categories |-> EventCategories(e),
              decodes |-> TRUE]
    IN  IF sh.scored = None THEN filtered
        ELSE upsert_event(filtered,
                          ranker_event_data(retrieve_event_by_id(filtered, e)[1],
                                            calculate_scores(F, sh.scored[1]))).store

\* ------------------------------------------------------------------------
\* upsert_event, client call by client call
\* ------------------------------------------------------------------------
NoUpsert == [ran |-> FALSE, before |-> {}, data |-> EmptyPayload, ok |-> FALSE]

UpsertInit == upsertRun = NoUpsert

\* How client.set_payload ends: the update is applied ("completed"), the
\* server answers that no point has the id ("not_found"), or the call
\* raises for another reason, such as a timeout ("raised").  With wait=True
\* a status other than COMPLETED is not returned.
SetPayloadOutcomes == {"completed", "not_found", "raised"}

\* upsert_event with the outcome of each client call it makes: non-empty
\* content -> client.upsert with the embedding; otherwise
\* client.set_payload, and after ANY exception of it the stub point with a
\* zero vector is upserted; an exception of client.upsert reaches the outer
\* except, which returns False.
upsert_event_calls(st, data, setPayload, upsertOk) ==
    IF data.id = None
    THEN [store |-> st, ok |-> FALSE]
    ELSE LET key == hash_id(data.id[1])
         IN  IF data.content # None /\ data.content[1] # ""
             THEN IF upsertOk
                  THEN [store |-> client_upsert(st, [key |-> key, vector |-> "embedding",
                                                     payload |-> WithOriginalId(data)]),
                        ok |-> TRUE]
                  ELSE [store |-> st, ok |-> FALSE]
             ELSE IF setPayload = "completed"
             THEN [store |-> client_set_payload(st, key, data), ok |-> TRUE]
             ELSE IF upsertOk
             THEN [store |-> client_upsert(st, [key |-> key, vector |-> "zero",
                                                payload |-> WithOriginalId(data)]),
                   ok |-> TRUE]
             ELSE [store |-> st, ok |-> FALSE]

\* Event data without text: an id and one payload field, the content key
\* absent or empty.
PatchData(e) ==
    {[EmptyPayload EXCEPT !.id = Some(e), !.is_anomaly = Some(TRUE)],
     [EmptyPayload EXCEPT !.id = Some(e), !.content = Some(""), !.final_score = Some(0)]}

\* One call of upsert_event without text on the collection as it is.
upsert_event_call(e, data, setPayload, upsertOk) ==
    /\ ~upsertRun.ran
    /\ data \in PatchData(e)
    /\ setPayload = "completed" => HasPoint(store, hash_id(e))
    /\ setPayload = "not_found" => ~HasPoint(store, hash_id(e))
    /\ LET res == upsert_event_calls(store, data, setPayload, upsertOk)
       IN  /\ store' = res.store
           /\ upsertRun' = [ran |-> TRUE, before |-> store, data |-> data, ok |-> res.ok]
    /\ UNCHANGED <<schedVars, connVars, apiVars, alertVars, lifeVars, faults, rawQ, dlq,
                   guardianMain, alerts, filterRun, persisted, filteredQ, rankedQ, rk, ins>>

\* The collection as the clients of the news endpoints find it.
ReadInit ==
    /\ SchedInit /\ ConnInit /\ FilterInit /\ ApiInit /\ LifeInit /\ UpsertInit
    /\ filteredQ = <<>>
    /\ rankedQ = <<>>
    /\ rk = RkIdle
    /\ ins = InsIdle
    /\ filterRun = [ran |-> FALSE, stored |-> FALSE, published |-> FALSE, calls |-> <<>>]
    /\ \E present \in SUBSET EventIds :
          \E shape \in [present -> RecordShapes] :
             /\ store = UNION {StoredAs(e, shape[e]) : e \in present}
             /\ persisted = [e \in EventIds |-> IF e \in present THEN 1 ELSE 0]

vars == <<schedVars, connVars, filterVars, rankVars, apiVars, alertVars, lifeVars, upsertVars,
          faults>>

Init == SchedInit /\ ConnInit /\ FilterInit /\ RankInit /\ ApiInit /\ LifeInit /\ UpsertInit

NextSched ==
    \/ \E id \in SourceIds, ok \in BOOLEAN : create_source(id, ok)
    \/ \E id \in SourceIds, a \in BOOLEAN : update_source(id, a)
    \/ \E id \in SourceIds, ok \in BOOLEAN : delete_source(id, ok)
    \/ \E id \in SourceIds, c \in ConfigIntervals : config_interval_set(id, c)
    \/ bootstrap_db_sources
    \/ \E i \in DOMAIN newQ, a \in BOOLEAN, n \in BOOLEAN : handle_new_source(i, a, n)
    \/ \E i \in DOMAIN remQ, a \in BOOLEAN, n \in BOOLEAN : handle_removed_source(i, a, n)
    \/ sched_ack_wait_expires
    \/ \E id \in SourceIds : tick_read(id)
    \/ \E id \in SourceIds : tick_not_found(id)
    \/ \E id \in SourceIds : tick_published(id)
    \/ \E id \in SourceIds : tick_publish_failed(id)
    \/ \E id \in SourceIds : tick_read_failed(id)

SpecSched == Init /\ [][NextSched]_vars

\* The two subscriber loops of the scheduler fetch and run their handlers
\* for ever, and the broker's ack_wait timers run out.
FairSched ==
    /\ SpecSched
    /\ WF_vars(\E i \in DOMAIN newQ, a \in BOOLEAN, n \in BOOLEAN : handle_new_source(i, a, n))
    /\ WF_vars(\E i \in DOMAIN remQ, a \in BOOLEAN, n \in BOOLEAN : handle_removed_source(i, a, n))
    /\ WF_vars(sched_ack_wait_expires)

NextConn ==
    \/ \E sid \in PolledIds, u \in BOOLEAN : poll_emitted(sid, u)
    \/ \E w \in Connectors, i \in DOMAIN pollStream, a \in BOOLEAN, n \in BOOLEAN :
          conn_receive(w, i, a, n)
    \/ \E w \in Connectors, links \in SUBSET Hrefs : conn_scraped(w, links)
    \/ \E w \in Connectors, n \in BOOLEAN : conn_scrape_failed(w, n)
    \/ \E w \in Connectors, n \in BOOLEAN : conn_commit_conflict(w, n)
    \/ \E w \in Connectors, sent \in SUBSET Hrefs, p \in BOOLEAN, a \in BOOLEAN, n \in BOOLEAN :
          conn_commit_publish(w, sent, p, a, n)
    \/ \E w \in Connectors : conn_crash(w)
    \/ \E i \in DOMAIN pollStream : conn_ack_wait_expires(i)

SpecConn == Init /\ [][NextConn]_vars

NextFilter ==
    \/ \E e \in EventIds, sc \in Scenarios, valid \in BOOLEAN, ok \in BOOLEAN :
          ingest_data(e, sc, valid, ok)
    \/ \E i \in DOMAIN rawQ : raw_event_handler(i)
    \/ \E i \in DOMAIN rawQ : raw_ack_wait_expires(i)
    \/ guardian_main_start
    \/ \E form \in MalformedForms : malformed_advisory_published(form)
    \/ \E j \in DOMAIN dlq, o \in {"ok", "process_failed", "ack_failed"} :
          dlq_event_handler(j, o)
    \/ \E j \in DOMAIN dlq : dlq_ack_wait_expires(j)

SpecFilter == Init /\ [][NextFilter]_vars

\* The dead-letter stream with the handler of guardian/main.py on it.
NextAlert ==
    \/ \E e \in EventIds, sc \in Scenarios, valid \in BOOLEAN, ok \in BOOLEAN :
          ingest_data(e, sc, valid, ok)
    \/ \E i \in DOMAIN rawQ : raw_event_handler(i)
    \/ \E i \in DOMAIN rawQ : raw_ack_wait_expires(i)
    \/ \E form \in MalformedForms : malformed_advisory_published(form)
    \/ \E j \in DOMAIN dlq, failing \in SUBSET Alerters, ok \in BOOLEAN :
          dlq_handler(j, failing, ok)
    \/ \E j \in DOMAIN dlq : alert_ack_wait_expires(j)

SpecAlert == Init /\ [][NextAlert]_vars

NextLife ==
    \/ connect_and_subscribe
    \/ fetch
    \/ message_handler
    \/ main_cancelled
    \/ \E ok \in BOOLEAN : keep_alive_ping(ok)
    \/ keep_alive_wake
    \/ disconnected_event
    \/ \E called \in BOOLEAN : reconnected_event(called)
    \/ closed_event

SpecLife == Init /\ [][NextLife]_vars

\* upsert_event applied to the collections the services leave behind.
NextUpsert ==
    \E e \in EventIds, sp \in SetPayloadOutcomes, ok \in BOOLEAN :
       \E data \in PatchData(e) : upsert_event_call(e, data, sp, ok)

SpecUpsert == ReadInit /\ [][NextUpsert]_vars

\* The subscriber loops fetch and call the handler for ever, the broker's
\* ack_wait timers run out, and the guardian processes start.
FairFilter ==
    /\ SpecFilter
    /\ WF_vars(\E i \in DOMAIN rawQ : raw_event_handler(i))
    /\ WF_vars(\E i \in DOMAIN rawQ : raw_ack_wait_expires(i))
    /\ WF_vars(\E j \in DOMAIN dlq, o \in {"ok", "process_failed", "ack_failed"} :
                  dlq_event_handler(j, o))
    /\ WF_vars(\E j \in DOMAIN dlq : dlq_ack_wait_expires(j))

NextRank ==
    \/ \E e \in EventIds, ts \in Timestamps, sOk \in BOOLEAN, ok \in BOOLEAN :
          persist_and_publish_filtered(e, ts, sOk, ok)
    \/ undecodable_published
    \/ \E i \in DOMAIN filteredQ, age \in 0..MaxAge, n \in BOOLEAN : rk_receive(i, age, n)
    \/ \E sOk \in BOOLEAN : rk_write(sOk)
    \/ \E p \in BOOLEAN, a \in BOOLEAN, n \in BOOLEAN : rk_publish(p, a, n)
    \/ \E i \in DOMAIN filteredQ : rk_ack_wait_expires(i)
    \/ \E i \in DOMAIN rankedQ, a \in BOOLEAN, n \in BOOLEAN : ins_receive(i, a, n)
    \/ \E o \in DetectorOutcomes : ins_check(o)
    \/ \E sOk \in BOOLEAN : ins_write(sOk)
    \/ \E a \in BOOLEAN, n \in BOOLEAN : ins_ack(a, n)
    \/ \E i \in DOMAIN rankedQ : ins_ack_wait_expires(i)

SpecRank == Init /\ [][NextRank]_vars

NextRead ==
    \/ \E limit \in 1..MaxLimit, ok \in BOOLEAN : get_ranked_news(limit, ok)
    \/ \E limit \in 1..MaxLimit, ok \in BOOLEAN : get_all_news(limit, ok)

SpecRead == ReadInit /\ [][NextRead]_vars

\* The ranker's and the inspector's subscriber loops fetch and run their
\* handlers for ever, and the broker's ack_wait timers run out.
FairRank ==
    /\ SpecRank
    /\ WF_vars(\E i \in DOMAIN filteredQ, age \in 0..MaxAge, n \in BOOLEAN :
                  rk_receive(i, age, n))
    /\ WF_vars(\E sOk \in BOOLEAN : rk_write(sOk))
    /\ WF_vars(\E p \in BOOLEAN, a \in BOOLEAN, n \in BOOLEAN : rk_publish(p, a, n))
    /\ WF_vars(\E i \in DOMAIN filteredQ : rk_ack_wait_expires(i))

\* ------------------------------------------------------------------------
\* C1: once the scheduler has acked removed.source(id), no poll.source with
\* that id is emitted any more - also when the removal is handled while a
\* tick of that source has read the row and waits for the broker publish.
\* ------------------------------------------------------------------------
NoPollAfterRemovalAck == pollAfterAck = {}

\* ------------------------------------------------------------------------
\* C2: for every (source_id, href) at most one RawEvent is ever published,
\* over redeliveries, connector restarts and concurrent connector processes.
\* ------------------------------------------------------------------------
AtMostOneRawEventPerPair == \A p \in Pairs : rawOut[p] <= 1

\* A pair that is in the dedup table was returned again by a later scrape
\* whose handling committed.
PairScrapedAgain == \E p \in seenAgain : p \in processed

\* ------------------------------------------------------------------------
\* C3: when the scrape returns a candidate whose (source_id, href) is not in
\* the dedup table, the connector inserts the pair and publishes one
\* RawEvent for it before it acks the poll.source message.
\* ------------------------------------------------------------------------
InsertedPairPublishedBeforeAck ==
    \A p \in Pairs :
        (insertedBy[p] # 0 /\ pollStream[insertedBy[p]].st = "acked") => rawOut[p] >= 1

\* ------------------------------------------------------------------------
\* C4: the store holds at most one record per original_id: handling the
\* same event id again, and every later ranker or inspector write for it,
\* land on the same key, so the number of records is the number of distinct
\* ids that were persisted.
\* ------------------------------------------------------------------------
OneRecordPerOriginalId ==
    /\ \A e \in EventIds :
          Cardinality(RecordsOf(store, e)) = IF persisted[e] > 0 THEN 1 ELSE 0
    /\ count_events(store) = Cardinality({e \in EventIds : persisted[e] > 0})

\* One id was persisted twice and its single record carries the ranker's
\* and the inspector's writes.
SameIdWrittenByAll ==
    \E e \in EventIds :
        /\ persisted[e] >= 2
        /\ \E p \in RecordsOf(store, e) :
              p.payload.final_score # None /\ p.payload.is_anomaly # None

\* ------------------------------------------------------------------------
\* C6: for every FilteredEvent published on filtered.events, eventually the
\* stored record of its id has importance_score, recency_score and
\* final_score set, in the runs where no broker call fails.
\* ------------------------------------------------------------------------
Scored(i) ==
    /\ i \in DOMAIN filteredQ
    /\ \E p \in RecordsOf(store, filteredQ[i].body.id) :
          /\ p.payload.importance_score # None
          /\ p.payload.recency_score # None
          /\ p.payload.final_score # None

\* Scored(i) holds only once message i is on the stream, so the scores are
\* seen at or after its publication.
ScoresEventuallyStored ==
    ([](faults = 0)) =>
        \A i \in 1..MaxFiltered :
            (<>(i \in DOMAIN filteredQ /\ filteredQ[i].body.decodes)) => <>Scored(i)

\* ------------------------------------------------------------------------
\* C5: every event published on raw.events that the classifier marks
\* relevant is eventually stored with is_relevant = true and a non-empty
\* categories list, when none of its deliveries meets an LLM outage and no
\* broker call fails.
\* ------------------------------------------------------------------------
StoredRelevant(i) ==
    /\ i \in DOMAIN rawQ
    /\ \E p \in RecordsOf(store, rawQ[i].body.id) :
          /\ p.payload.is_relevant = Some(TRUE)
          /\ p.payload.categories # None
          /\ p.payload.categories # Some(<<>>)

RelevantEventuallyStored ==
    ([](faults = 0)) =>
        \A i \in 1..MaxRaw :
            (<>(i \in DOMAIN rawQ /\ rawQ[i].body.relevant /\ rawQ[i].body.outages = 0))
            => <>StoredRelevant(i)

\* ------------------------------------------------------------------------
\* C7: a message whose deliveries reach max_deliver without an ack is not
\* delivered again and gives rise to exactly one max-deliveries advisory,
\* which the guardian's handler receives exactly once.
\* ------------------------------------------------------------------------
AdvisoriesFor(name, i) == {j \in DOMAIN dlq : dlq[j].body = Advisory(name, i)}

Exhausted(s, i) == i \in DOMAIN s /\ s[i].st \in {"dead", "deleted"}

ExhaustedOnceAdvised ==
    /\ \A i \in DOMAIN rawQ :
          /\ rawQ[i].dc <= FilterMaxDeliver
          /\ Cardinality(AdvisoriesFor("raw", i)) = IF Exhausted(rawQ, i) THEN 1 ELSE 0
    /\ \A j \in DOMAIN dlq :
          /\ dlq[j].dc <= GuardianMaxDeliver
          /\ Cardinality(AdvisoriesFor("dlq", j)) = IF Exhausted(dlq, j) THEN 1 ELSE 0

GuardianReceived(i) == \E j \in AdvisoriesFor("raw", i) : dlq[j].dc = 1

MaxDeliverAdvisedOnce ==
    /\ []ExhaustedOnceAdvised
    /\ \A i \in 1..MaxRaw : Exhausted(rawQ, i) ~> GuardianReceived(i)

\* A raw event was given up after its third delivery and the guardian's
\* handler has run on its advisory.
RawGivenUpAndReceived ==
    \E i \in DOMAIN rawQ :
        rawQ[i].dc = FilterMaxDeliver /\ Exhausted(rawQ, i) /\ GuardianReceived(i)

HandledAdvisories == {j \in DOMAIN dlq : dlq[j].st = "acked" /\ dlq[j].body.form = "ok"}

AdvisoryAlertedAndDeleted ==
    /\ \A a \in Alerters : alerts[a] = Cardinality(HandledAdvisories)
    /\ \A j \in HandledAdvisories :
          IF dlq[j].body.stream = "raw"
          THEN rawQ[dlq[j].body.seq].st = "deleted"
          ELSE dlq[dlq[j].body.seq].st = "deleted"

\* ------------------------------------------------------------------------
\* C10: an execution of a worker handler invokes at most one of ack and nak
\* on its message, never both, and exactly one of them when no exception
\* escapes the handler.
\* ------------------------------------------------------------------------
AckXorNak ==
    /\ ~("ack" \in Range(schedCalls.calls) /\ "nak" \in Range(schedCalls.calls))
    /\ (schedCalls # [calls |-> <<>>, escaped |-> FALSE] /\ ~schedCalls.escaped)
          => Len(schedCalls.calls) = 1

\* ------------------------------------------------------------------------
\* C11: the filter acks a raw event it classified as relevant only after the
\* store write succeeded and the FilteredEvent was published; when the store
\* write fails it naks and publishes no FilteredEvent.
\* ------------------------------------------------------------------------
AckOnlyAfterStoreAndPublish ==
    filterRun.ran =>
        /\ ("ack" \in Range(filterRun.calls) => filterRun.stored /\ filterRun.published)
        /\ (~filterRun.stored => filterRun.calls = <<"nak">> /\ ~filterRun.published)

\* ------------------------------------------------------------------------
\* C12: a delivered message whose payload cannot be decoded is acked and
\* dropped, never nak'd: it is delivered once at most, is never handed back
\* for redelivery and is never given up at max_deliver (no advisory).
\* ------------------------------------------------------------------------
UndecodableAckedAndDropped ==
    \A i \in DOMAIN filteredQ :
        ~filteredQ[i].body.decodes =>
            /\ filteredQ[i].dc <= 1
            /\ filteredQ[i].st # "dead"
            /\ (filteredQ[i].st = "ready" => filteredQ[i].dc = 0)

\* ------------------------------------------------------------------------
\* C13: in every reachable state of the store, under any sequence of filter,
\* ranker and inspector writes, every record that has a final_score has
\* is_relevant = true.
\* ------------------------------------------------------------------------
ScoredImpliesRelevant ==
    \A p \in store : p.payload.final_score # None => p.payload.is_relevant = Some(TRUE)

\* A record scored by the ranker and written again by the inspector.
ScoredAndInspectedRecord ==
    \E p \in store : /\ p.payload.final_score # None
                      /\ p.payload.is_anomaly = Some(TRUE)

\* ------------------------------------------------------------------------
\* C14: at any time a stored record is returned by list_filtered_events iff
\* it has is_relevant = true and no final_score, and by list_ranked_events
\* (limit at least the number of records) iff it has a final_score; no
\* record is returned by both.
\* ------------------------------------------------------------------------
FilteredAndRankedListsDisjoint ==
    LET filtered == list_filtered_events(store)
        ranked   == Range(list_ranked_events(store, count_events(store)))
    IN  \A p \in store :
            /\ p.payload \in filtered <=> (/\ p.payload.is_relevant = Some(TRUE)
                                           /\ p.payload.final_score = None)
            /\ p.payload \in ranked <=> p.payload.final_score # None
            /\ ~(p.payload \in filtered /\ p.payload \in ranked)

\* Two stored events, one scored by the ranker and one not.
OneScoredOneUnscored ==
    /\ \E p \in store : p.payload.final_score # None
    /\ \E p \in store : p.payload.final_score = None

\* ------------------------------------------------------------------------
\* C15: a tick for a source that, at tick time, has been deleted from the
\* registry or has is_active = false publishes no poll.source message.
\* (The message carries is_active as the tick read it from the row.)
\* ------------------------------------------------------------------------
NoPollForInactiveOrDeleted ==
    \A i \in DOMAIN pollStream : pollStream[i].body.is_active

\* ------------------------------------------------------------------------
\* C16: every successful registry mutation emits its lifecycle event: create
\* publishes new.source, delete publishes removed.source, an update that
\* changes is_active publishes removed.source when the new state is inactive
\* and new.source when it is active.  (Steps in which no broker call fails.)
\* ------------------------------------------------------------------------
MutationEmitsLifecycleEvent ==
    [][\A id \in SourceIds :
          (db'[id] # db[id] /\ faults' = faults) =>
              IF db'[id] = "active"
              THEN /\ Len(newQ') = Len(newQ) + 1
                   /\ newQ'[Len(newQ')].body.id = id
              ELSE /\ Len(remQ') = Len(remQ) + 1
                   /\ remQ'[Len(remQ')].body.id = id]_vars

\* ------------------------------------------------------------------------
\* C17: once a source has been deleted from the registry, the scheduler
\* eventually holds no polling job for it and never holds one again, for
\* every order in which its new.source and removed.source messages are
\* delivered and redelivered (no broker call failing).
\* ------------------------------------------------------------------------
DeletedSourceJobGoneForGood ==
    ([](faults = 0)) =>
        \A id \in SourceIds :
            [](db[id] = "deleted" => <>[](get_job(jobs, id) = {}))

\* ------------------------------------------------------------------------
\* C18: after any sequence of bootstrap, new.source and removed.source
\* handling the scheduler holds at most one polling job per source id, and
\* handling new.source with is_active = true leaves exactly one job for the
\* source, with the interval taken from that message.
\* ------------------------------------------------------------------------
OneJobPerSource ==
    [][/\ \A id \in SourceIds : Cardinality(get_job(jobs', id)) <= 1
       /\ \A i \in DOMAIN newQ :
             (newQ'[i].dc > newQ[i].dc /\ newQ[i].body.is_active) =>
                 get_job(jobs', newQ[i].body.id) =
                     {[id |-> newQ[i].body.id,
                       interval |-> poll_interval(newQ[i].body.config)]}]_vars

\* A new.source was handled for a source whose job had another interval.
JobReplacedWithMessageInterval ==
    \E id \in jobReplaced : get_job(jobs, id) # {}

\* ------------------------------------------------------------------------
\* C19: the ranker's importance_score is the sum over the event's categories
\* of the configured weight, an unknown category counting as weight("Other");
\* for an empty categories sequence it equals weight("Other").
\* (Seen on every RankedEvent; the events of a run have at most two
\* categories.)
\* ------------------------------------------------------------------------
ImportanceIsSumOfWeights ==
    \A i \in DOMAIN rankedQ :
        LET R == rankedQ[i].body
        IN  R.importance_score =
                IF R.categories = <<>> THEN CategoryWeight("Other")
                ELSE CategoryWeight(R.categories[1]) +
                     (IF Len(R.categories) > 1 THEN CategoryWeight(R.categories[2]) ELSE 0)

\* ------------------------------------------------------------------------
\* C20: for every FilteredEvent the ranker handles, final_score equals
\* importance_weight * importance_score + recency_weight * recency_score, and
\* the three scores written to the stored record are the three scores
\* carried by the published RankedEvent.
\* ------------------------------------------------------------------------
WrittenScoresArePublishedScores ==
    [][Len(rankedQ') > Len(rankedQ) =>
          LET R == rankedQ'[Len(rankedQ')].body
          IN  /\ R.final_score = importance_weight * R.importance_score
                                   + recency_weight * R.recency_score
              /\ rk.written # None =>
                     rk.written[1] = [importance |-> Some(R.importance_score),
                                      recency |-> Some(R.recency_score),
                                      final |-> Some(R.final_score)]]_vars

\* A RankedEvent of an aged event is on the stream and the record of its id
\* holds the scores it carries.
RankedEventMatchesRecord ==
    \E i \in DOMAIN rankedQ :
        /\ rankedQ[i].body.recency_score < decayed_score(0)
        /\ \E p \in RecordsOf(store, rankedQ[i].body.id) :
              /\ p.payload.importance_score = Some(rankedQ[i].body.importance_score)
              /\ p.payload.recency_score = Some(rankedQ[i].body.recency_score)
              /\ p.payload.final_score = Some(rankedQ[i].body.final_score)

\* ------------------------------------------------------------------------
\* C21: list_ranked_events(limit) returns only records that have a
\* final_score, in non-increasing order of final_score; records of equal
\* score come in an order fixed by the store contents alone (the order of
\* their point ids), so every call over the same contents returns the same
\* list.
\* ------------------------------------------------------------------------
RankedListOrdered ==
    (response.endpoint = "/news/ranked" /\ response.status = 200) =>
        LET body == response.body
        IN  /\ Len(body) <= response.limit
            /\ \A k \in DOMAIN body :
                   /\ body[k].final_score # None
                   /\ \E p \in store : p.payload = body[k]
            /\ \A j, k \in DOMAIN body :
                   j < k => /\ body[j].final_score[1] >= body[k].final_score[1]
                            /\ body[j].final_score[1] = body[k].final_score[1]
                                  => UuidOrder(hash_id(body[j].id[1]))
                                        < UuidOrder(hash_id(body[k].id[1]))

\* A ranked list of three records, the first two with the same final_score
\* and the third, which the scroll delivered between them, with a lower one.
RankedListWithTie ==
    /\ response.endpoint = "/news/ranked"
    /\ Len(response.body) = 3
    /\ response.body[1].final_score = response.body[2].final_score
    /\ response.body[2].final_score[1] > response.body[3].final_score[1]
    /\ UuidOrder(hash_id(response.body[1].id[1])) < UuidOrder(hash_id(response.body[3].id[1]))
    /\ UuidOrder(hash_id(response.body[3].id[1])) < UuidOrder(hash_id(response.body[2].id[1]))

\* ------------------------------------------------------------------------
\* C22: list_all_events(limit) returns the limit most recent stored events
\* (all of them when there are fewer), ordered by timestamp descending, the
\* timestamps being the ISO-8601 strings the filter stores.
\* ------------------------------------------------------------------------
AllListMostRecentFirst ==
    (response.endpoint = "/news" /\ response.status = 200) =>
        LET body == response.body
            n == count_events(store)
        IN  /\ Len(body) = IF response.limit < n THEN response.limit ELSE n
            /\ \A j, k \in DOMAIN body :
                   j < k => DayOf(body[j].timestamp[1]) >= DayOf(body[k].timestamp[1])
            /\ \A p \in store :
                   p.payload \notin Range(body) =>
                      \A k \in DOMAIN body :
                         DayOf(body[k].timestamp[1]) >= DayOf(p.payload.timestamp[1])

\* ------------------------------------------------------------------------
\* C23: POST /ingest answers with a success status only when every event of
\* the batch was enqueued on raw.events; when a publish fails the status is
\* a 5xx.
\* ------------------------------------------------------------------------
IngestSuccessMeansEnqueued ==
    /\ ingestCall.status \in 200..299 => ingestCall.published = ingestCall.events
    /\ ingestCall.published < ingestCall.events => ingestCall.status \in 500..599

\* ------------------------------------------------------------------------
\* C24: a tick whose database read or broker publish fails leaves the job
\* map as it was: the failing source's job is still there to fire on later
\* ticks, and no other source's job is touched.
\* ------------------------------------------------------------------------
FailedTickKeepsJobs ==
    [][\A id \in SourceIds :
          (tick_publish_failed(id) \/ tick_read_failed(id)) =>
              /\ jobs' = jobs
              /\ tick'[id] \notin {"active", "inactive"}]_vars

\* Two sources have jobs, the last tick of one of them has failed, and the
\* poll.source of the other has been emitted.
TickFailedBothJobsKept ==
    \E id, other \in SourceIds :
        /\ id # other
        /\ get_job(jobs, id) # {}
        /\ get_job(jobs, other) # {}
        /\ tick[id] = "failed"
        /\ \E i \in DOMAIN pollStream : pollStream[i].body.id = other

\* ------------------------------------------------------------------------
\* C25: when the stored record of the event is absent, the ranker and the
\* inspector skip it: the step that ends the execution writes no record and
\* publishes nothing downstream (and acks the message).
\* ------------------------------------------------------------------------
AbsentRecordSkipped ==
    [][/\ (rk.pc = "publish" /\ rk.data = None /\ rk'.pc = "idle") =>
             /\ store' = store
             /\ rankedQ' = rankedQ
       /\ \A i \in DOMAIN rankedQ :
             (/\ ins.pc = "idle"
              /\ rankedQ[i].st = "ready"
              /\ rankedQ'[i] # rankedQ[i]
              /\ retrieve_event_by_id(store, rankedQ[i].body.id) = None) =>
                 /\ store' = store
                 /\ ins' = InsIdle
                 /\ faults' = faults => rankedQ'[i].st = "acked"]_vars

\* ------------------------------------------------------------------------
\* C26: when executions of the ranker and of the inspector for the same
\* event id interleave, neither update is lost: a write of the ranker
\* leaves a stored is_anomaly flag in place, and a write of the inspector
\* leaves the stored scores in place.
\* ------------------------------------------------------------------------
NoLostUpdate ==
    [][/\ (rk.pc = "write" /\ rk'.pc = "publish") =>
             \A p \in store :
                 p.payload.is_anomaly = Some(TRUE) =>
                     \E q \in store' : /\ q.key = p.key
                                       /\ q.payload.is_anomaly = Some(TRUE)
       /\ (ins.pc = "write" /\ ins'.pc = "ack") =>
             \A p \in store :
                 \E q \in store' : /\ q.key = p.key
                                   /\ q.payload.importance_score = p.payload.importance_score
                                   /\ q.payload.recency_score = p.payload.recency_score
                                   /\ q.payload.final_score = p.payload.final_score]_vars

\* ------------------------------------------------------------------------
\* C27: the inspector's frame: an execution in which no detector trips
\* leaves the store unchanged; one in which a detector trips changes
\* nothing but is_anomaly, to true, in the payload of its record.
\* ------------------------------------------------------------------------
InspectorWritesOnlyIsAnomaly ==
    [][/\ (ins.pc \in {"check", "ack"} /\ ins' # ins) => store' = store
       /\ (ins.pc = "write" /\ ins'.pc = "ack" /\ ins'.stored = Some(TRUE)) =>
             /\ \A q \in store' : \E p \in store : p.key = q.key
             /\ \A p \in store :
                   \E q \in store' :
                      /\ q.key = p.key
                      /\ q.vector = p.vector
                      /\ q.payload =
                            IF p.key = hash_id(ins.data[1].id[1])
                            THEN [p.payload EXCEPT !.is_anomaly = Some(TRUE)]
                            ELSE p.payload]_vars

\* ------------------------------------------------------------------------
\* C28: the ranker and the inspector ack their message only if their store
\* write succeeded: an execution whose upsert_event failed does not end
\* with the message acked.
\* ------------------------------------------------------------------------
AckOnlyAfterStoreWrite ==
    [][/\ (rk.pc = "publish" /\ rk.stored = Some(FALSE) /\ rk'.pc = "idle") =>
             filteredQ'[rk.msg].st # "acked"
       /\ (ins.pc = "ack" /\ ins.stored = Some(FALSE) /\ ins'.pc = "idle") =>
             rankedQ'[ins.msg].st # "acked"]_vars

\* ------------------------------------------------------------------------
\* C29: an execution of the inspector in which the LLM call of
\* llm_anomaly_detector failed does not ack the message as free of
\* anomalies.
\* ------------------------------------------------------------------------
LlmFailureNotAcked ==
    [][(ins.pc = "ack" /\ ins.llm_failed /\ ins'.pc = "idle") =>
           rankedQ'[ins.msg].st # "acked"]_vars

\* ------------------------------------------------------------------------
\* C30: whatever the timestamp string of a FilteredEvent (no ISO-8601 date,
\* ISO-8601 without offset, ISO-8601 with offset), the ranker that receives
\* it computes a recency score and goes on with the event instead of
\* nak-ing it; for a string that does not parse the recency score is
\* max_score.
\* ------------------------------------------------------------------------
TimestampNeverNaks ==
    [][\A i \in DOMAIN filteredQ :
          (/\ rk.pc = "idle"
           /\ filteredQ[i].st = "ready"
           /\ filteredQ'[i] # filteredQ[i]
           /\ filteredQ[i].body.decodes) =>
              /\ rk'.msg = i
              /\ rk'.scores # None
              /\ fromisoformat_raises(filteredQ[i].body.timestamp) =>
                     rk'.scores[1].recency = decayed_score(0)]_vars

\* ------------------------------------------------------------------------
\* C31: in the guardian's handling of a well-formed advisory the failing
\* message is deleted from its stream before the advisory is acked: an
\* advisory that has been acked is one whose message was fetched and
\* deleted, and never one whose message is still in its stream.
\* ------------------------------------------------------------------------
AdvisoryAckedOnlyAfterDelete ==
    \A j \in DOMAIN dlq :
        (dlq[j].body.form = "ok" /\ dlq[j].st = "acked") =>
            IF dlq[j].body.stream = "raw"
            THEN rawQ[dlq[j].body.seq].st = "deleted"
            ELSE dlq[dlq[j].body.seq].st = "deleted"

\* One advisory acked with its raw event deleted, and another advisory whose
\* handling failed before the delete and which was therefore given up
\* unacked.
AckedAfterDeleteAndUnackedWithout ==
    /\ \E j \in DOMAIN dlq :
          /\ dlq[j].body.form = "ok" /\ dlq[j].st = "acked"
          /\ dlq[j].body.stream = "dlq"
          /\ dlq[dlq[j].body.seq].st = "deleted"
    /\ \E j \in DOMAIN dlq :
          /\ dlq[j].body.stream = "raw"
          /\ dlq[j].st = "deleted"
          /\ rawQ[dlq[j].body.seq].st = "dead"

\* ------------------------------------------------------------------------
\* C32: an advisory that is not valid JSON, or that lacks stream, consumer
\* or stream_seq, is acked and dropped by the guardian's handler, which
\* fetches and deletes no stream message for it.
\* ------------------------------------------------------------------------
MalformedAdvisoryAckedAndDropped ==
    [][\A j \in DOMAIN dlq :
          (/\ dlq[j].body.form # "ok"
           /\ dlq[j].st = "ready"
           /\ dlq'[j].st # "ready") =>
              /\ rawQ' = rawQ
              /\ \A k \in DOMAIN dlq : dlq'[k].st = "deleted" <=> dlq[k].st = "deleted"
              /\ faults' = faults => dlq'[j].st = "acked"]_vars

\* ------------------------------------------------------------------------
\* C33: when send_alert of a configured alerter fails, the guardian's
\* dlq_handler still invokes send_alert on every other configured alerter
\* for that message, and it never naks the message.
\* ------------------------------------------------------------------------
EveryAlerterInvokedDespiteFailure ==
    /\ alertRun.failed # {} => alertRun.invoked = Alerters
    /\ "nak" \notin Range(alertRun.calls)

\* ------------------------------------------------------------------------
\* C35: on a shutdown signal (cancellation of the main task) a worker
\* service stops its fetch loop and has closed its subscriber and its
\* publisher when the process exits.
\* ------------------------------------------------------------------------
ClosedBeforeExit ==
    mainTask = "exited" => closeCalled = {"subscriber", "publisher"}

\* ------------------------------------------------------------------------
\* C36: whenever the subscriber's connection is up, its keep-alive ping
\* loop is running; in particular after a disconnect followed by a
\* reconnect.
\* ------------------------------------------------------------------------
PingingWhileConnected ==
    (nc = "connected" /\ mainTask # "exited") => ping_thread \in {"check", "sleeping"}

\* ------------------------------------------------------------------------
\* C34: upsert_event called with absent or empty content for an id that
\* has a record changes only the payload keys supplied (the vector and
\* every other payload field stay); when the id has no record, a stub with
\* a zero vector carrying the payload is created; it returns success iff
\* the write was confirmed.
\* ------------------------------------------------------------------------
PointOf(st, key) == CHOOSE p \in st : p.key = key

UpsertWrote ==
    LET key == hash_id(upsertRun.data.id[1])
    IN  /\ HasPoint(store, key)
        /\ \A f \in DOMAIN EmptyPayload \ {"original_id"} :
              upsertRun.data[f] # None => PointOf(store, key).payload[f] = upsertRun.data[f]

PatchChangesOnlySuppliedKeys ==
    upsertRun.ran =>
        LET key == hash_id(upsertRun.data.id[1])
            before == upsertRun.before
        IN  /\ \A p \in before : p.key # key => p \in store
            /\ HasPoint(before, key) =>
                  /\ HasPoint(store, key)
                  /\ PointOf(store, key).vector = PointOf(before, key).vector
                  /\ \A f \in DOMAIN EmptyPayload :
                        upsertRun.data[f] = None =>
                           PointOf(store, key).payload[f] = PointOf(before, key).payload[f]
            /\ (~HasPoint(before, key) /\ upsertRun.ok) =>
                  /\ PointOf(store, key).vector = "zero"
                  /\ PointOf(store, key).payload = WithOriginalId(upsertRun.data)
            /\ upsertRun.ok <=> UpsertWrote

\* ------------------------------------------------------------------------
\* C37: whenever a pair (source_id, href) is in the dedup table and the
\* poll.source message whose handling inserted it has been acked or has
\* used up its deliveries, a RawEvent for the pair has been published.
\* ------------------------------------------------------------------------
DedupedPairWasPublished ==
    \A p \in processed :
        (insertedBy[p] # 0 /\ pollStream[insertedBy[p]].st \in {"acked", "dead"})
            => rawOut[p] >= 1

\* ------------------------------------------------------------------------
\* C38: once a stored record has a final_score it never goes back to having
\* none: no later write of the filter, the ranker or the inspector for that
\* id, the handling of a redelivered or re-ingested RawEvent of the same id
\* included, removes the scores.
\* ------------------------------------------------------------------------
FinalScoreNeverReverts ==
    [][\A p \in store :
          p.payload.final_score # None =>
              \E q \in store' : q.key = p.key /\ q.payload.final_score # None]_vars

\* ------------------------------------------------------------------------
\* C39: whenever the ranker publishes a RankedEvent for an id, the store at
\* that moment holds a record of that id whose final_score is the published
\* final_score.
\* ------------------------------------------------------------------------
PublishedScoreIsStored ==
    [][Len(rankedQ') > Len(rankedQ) =>
          LET R == rankedQ'[Len(rankedQ')].body
          IN  \E p \in RecordsOf(store', R.id) :
                 p.payload.final_score = Some(R.final_score)]_vars
====
